---------------------------- MODULE Spec2Model ----------------------------
(***************************************************************************)
(* A model of flickr-exporter (exporter.go): the listing loops, the per    *)
(* asset steps of downloadAlbum and unorganizedPhotoWorker, the retry      *)
(* loops of downloadPhoto and getPhotoInfo, and the two worker pools of    *)
(* ExportAllPhotos.                                                        *)
(*                                                                         *)
(* Strings are sequences of one-character strings, so that the string      *)
(* functions of the code (Split, Contains, Replace) are computed.          *)
(***************************************************************************)
EXTENDS Integers, Sequences, FiniteSets, TLC

\* ------------------------------------------------------------------ bounds
\* Entries per page of the remote listings of the catalog of a run.
PerPage == 1
\* Largest reported page count of a listing drawn for the listing loops alone.
MaxPages == 2
\* Longest string given to a string function called alone.
MaxLen == 3
\* Instants of the remote clock that fall on one calendar day.
TicksPerDay == 2

\* The identifiers given to one command.
MaxArgs == 2

\* ------------------------------------------------------- program constants
numWorkers == 4
maxRetries == 5
baseDelay == 2
retryWait == 5
TooManyRequests == 429
StatusOK == 200

Workers == 1..numWorkers
\* The exporter made by NewFlickrExporter (fe); the workers use their own.
Parent == 0

\* ----------------------------------------------------------------- strings
\* strings.Contains(s, sub)
Contains(s, sub) ==
    \E i \in 0..(Len(s) - Len(sub)) :
        \A j \in 1..Len(sub) : s[i + j] = sub[j]

HTTP429 == <<"H", "T", "T", "P", " ", "4", "2", "9">>
RateLimitText == <<"r", "a", "t", "e", " ", "l", "i", "m", "i", "t">>
TooManyText == <<"t", "o", "o", " ", "m", "a", "n", "y", " ",
                 "r", "e", "q", "u", "e", "s", "t", "s">>

\* The decimal digits of a three-digit status code.
Digit(d) == CASE d = 0 -> "0" [] d = 1 -> "1" [] d = 2 -> "2" [] d = 3 -> "3"
              [] d = 4 -> "4" [] d = 5 -> "5" [] d = 6 -> "6" [] d = 7 -> "7"
              [] d = 8 -> "8" [] OTHER -> "9"
StatusDigits(code) ==
    <<Digit(code \div 100), Digit((code \div 10) % 10), Digit(code % 10)>>

ReservedChars == {"/", "\\", ":", "*", "?", "\"", "<", ">", "|"}

\* The replacer without its last pair.
sanitizeFilenameNoBar(filename) ==
    [i \in 1..Len(filename) |->
        IF filename[i] \in ReservedChars \ {"|"} THEN "-" ELSE filename[i]]

\* strings.NewReplacer(...).Replace(filename): each reserved character -> "-"
sanitizeFilename(filename) ==
    [i \in 1..Len(filename) |->
        IF filename[i] \in ReservedChars THEN "-" ELSE filename[i]]

\* Index of the last "/" of s, 0 when there is none.
LastSlash(s) ==
    LET at == {i \in 1..Len(s) : s[i] = "/"}
    IN IF at = {} THEN 0 ELSE CHOOSE i \in at : \A j \in at : j <= i

\* parts := strings.Split(url, "/"); parts[len(parts)-1]
LastSegment(url) == SubSeq(url, LastSlash(url) + 1, Len(url))

\* time.Unix(ts, 0).Format("2006-01-02"): the calendar day of an instant.
FormatDate(ts) == <<"d", Digit(ts \div TicksPerDay)>>


\* ------------------------------------------------------ the remote listings
\* A listing is what the remote holds: the page count it reports and the items
\* of each page.  A request for a page returns that count and the page's items.
Response(listing, page) ==
    [Pages |-> listing.pages,
     items |-> IF page \in DOMAIN listing.content
               THEN listing.content[page] ELSE <<>>]

\* The pages of `items`, `n` to a page, as the remote cuts them.
RECURSIVE Chunks(_, _)
Chunks(items, n) ==
    IF Len(items) = 0 THEN <<>>
    ELSE IF Len(items) <= n THEN <<items>>
    ELSE <<SubSeq(items, 1, n)>> \o Chunks(SubSeq(items, n + 1, Len(items)), n)

ListingOf(items) ==
    LET c == Chunks(items, PerPage) IN [pages |-> Len(c), content |-> c]

\* parsePhotoFromStruct and parsePhotoFromPhotosAPI (the same statements)
parsePhotoFromStruct(photoData) ==
    [ID |-> photoData.Id,
     OriginalURL |-> photoData.URLO,
     Filename |-> IF photoData.URLO # <<>> THEN LastSegment(photoData.URLO)
                  ELSE <<>>]

parsePhotoFromPhotosAPI(photoData) == parsePhotoFromStruct(photoData)

\* parseAlbumFromStruct: a date_create of zero becomes the Unix epoch.
parseAlbumFromStruct(photosetData) ==
    [ID |-> photosetData.Id,
     Title |-> photosetData.Title,
     DateCreated |-> IF photosetData.DateCreate > 0
                     THEN photosetData.DateCreate ELSE 0]

\* getAlbumInfo with the fallback of the bulk listing.
getAlbumInfoEpoch(albumID, set, now) ==
    [ID |-> albumID,
     Title |-> set.Title,
     DateCreated |-> IF set.DateCreate > 0 THEN set.DateCreate ELSE 0]

\* getAlbumInfo (lines 283-309): a date_create of zero becomes time.Now().
getAlbumInfo(albumID, set, now) ==
    [ID |-> albumID,
     Title |-> set.Title,
     DateCreated |-> IF set.DateCreate > 0 THEN set.DateCreate ELSE now]

\* parseAlbumFromCollectionSet (lines 455-471): the album of getAlbumInfo,
\* or, when that request fails, the title of the tree with the Unix epoch.
parseAlbumFromCollectionSet(set, infoErr, now) ==
    IF infoErr
    THEN [ID |-> set.Id, Title |-> set.Title, DateCreated |-> 0]
    ELSE getAlbumInfo(set.Id, set, now)

\* getCollectionAlbums (lines 347-385): one getTree request; an error when it
\* fails or when the tree holds no set.
getCollectionAlbums(sets, treeErr, infoErrs, now) ==
    IF treeErr \/ sets = <<>>
    THEN [err |-> TRUE, albums |-> <<>>]
    ELSE [err |-> FALSE,
          albums |-> [i \in DOMAIN sets |->
                         parseAlbumFromCollectionSet(sets[i], infoErrs[i], now)]]

\* The instants at which the command may run: on one of two days.
Clock == {2 * TicksPerDay, 3 * TicksPerDay}

NoItems == <<>>

\* The result of a listing loop: the page numbers requested, in order, and
\* either an error (and no item) or the items.
Failed(requested) == [err |-> TRUE, items |-> NoItems, requested |-> requested]
Listed(items, requested) == [err |-> FALSE, items |-> items, requested |-> requested]

KeepWithURL(photos) == SelectSeq(photos, LAMBDA p : p.OriginalURL # <<>>)
ParsePhotos(items) == [i \in 1..Len(items) |-> parsePhotoFromStruct(items[i])]
ParseAlbums(items) == [i \in 1..Len(items) |-> parseAlbumFromStruct(items[i])]

\* The loop leaving at the first page without items.
RECURSIVE albumPhotosLoopShort(_, _, _, _)
albumPhotosLoopShort(listing, failAt, page, photos) ==
    IF page = failAt THEN Failed(Append(photos.requested, page))
    ELSE LET response == Response(listing, page)
             got == [items |-> photos.items \o KeepWithURL(ParsePhotos(response.items)),
                     requested |-> Append(photos.requested, page)]
         IN IF page >= response.Pages \/ Len(response.items) = 0
            THEN Listed(got.items, got.requested)
            ELSE albumPhotosLoopShort(listing, failAt, page + 1, got)

\* getAlbumPhotos, from the request of `page` on; `failAt` is the page whose
\* request fails (0: none does).
RECURSIVE albumPhotosLoop(_, _, _, _)
albumPhotosLoop(listing, failAt, page, photos) ==
    IF page = failAt THEN Failed(Append(photos.requested, page))
    ELSE LET response == Response(listing, page)
             got == [items |-> photos.items \o KeepWithURL(ParsePhotos(response.items)),
                     requested |-> Append(photos.requested, page)]
         IN IF page >= response.Pages
            THEN Listed(got.items, got.requested)
            ELSE albumPhotosLoop(listing, failAt, page + 1, got)

getAlbumPhotos(listing, failAt) ==
    albumPhotosLoop(listing, failAt, 1, [items |-> <<>>, requested |-> <<>>])

\* The loop handing back, with the error, the albums of the pages fetched.
RECURSIVE allAlbumsLoopPartial(_, _, _, _)
allAlbumsLoopPartial(listing, failAt, page, albums) ==
    IF page = failAt
    THEN [err |-> TRUE, items |-> albums.items,
          requested |-> Append(albums.requested, page)]
    ELSE LET response == Response(listing, page)
             got == [items |-> albums.items \o ParseAlbums(response.items),
                     requested |-> Append(albums.requested, page)]
         IN IF page >= response.Pages
            THEN Listed(got.items, got.requested)
            ELSE allAlbumsLoopPartial(listing, failAt, page + 1, got)

RECURSIVE allAlbumsLoop(_, _, _, _)
allAlbumsLoop(listing, failAt, page, albums) ==
    IF page = failAt THEN Failed(Append(albums.requested, page))
    ELSE LET response == Response(listing, page)
             got == [items |-> albums.items \o ParseAlbums(response.items),
                     requested |-> Append(albums.requested, page)]
         IN IF page >= response.Pages
            THEN Listed(got.items, got.requested)
            ELSE allAlbumsLoop(listing, failAt, page + 1, got)

getAllAlbums(listing, failAt) ==
    allAlbumsLoop(listing, failAt, 1, [items |-> <<>>, requested |-> <<>>])

\* getAllPhotos: a failed request and an error payload both end the loop.
RECURSIVE allPhotosLoop(_, _, _, _)
allPhotosLoop(listing, failAt, page, allPhotos) ==
    IF page = failAt THEN Failed(Append(allPhotos.requested, page))
    ELSE LET response == Response(listing, page)
             got == [items |-> allPhotos.items
                                 \o KeepWithURL(ParsePhotos(response.items)),
                     requested |-> Append(allPhotos.requested, page)]
         IN IF page >= response.Pages
            THEN Listed(got.items, got.requested)
            ELSE allPhotosLoop(listing, failAt, page + 1, got)

getAllPhotos(listing, failAt) ==
    allPhotosLoop(listing, failAt, 1, [items |-> <<>>, requested |-> <<>>])


\* ------------------------------------------------------------ the retries
NilErr == <<>>
Sleep(seconds) == <<"sleep", seconds>>
interAssetDelay == 100
Pause == <<"sleep ms", interAssetDelay>>

\* What one flickr.photos.getInfo request can come to: a response, a failed
\* DoGet with its error text, or a response carrying an error message.
InfoOK == [kind |-> "ok", text |-> NilErr]
InfoOutcomes ==
    {InfoOK,
     [kind |-> "err", text |-> HTTP429 \o <<":">>],
     [kind |-> "err", text |-> <<"a", " ">> \o RateLimitText],
     [kind |-> "err", text |-> <<"E", "O", "F">>],
     [kind |-> "api", text |-> RateLimitText \o <<"!">>],
     [kind |-> "api", text |-> TooManyText],
     [kind |-> "api", text |-> <<"n", "o", "t", " ", "f", "o", "u", "n", "d">>]}

\* Lines 883 and 899: the texts that count as rate limiting.
RateLimited(out) ==
    \/ /\ out.kind = "err"
       /\ Contains(out.text, HTTP429) \/ Contains(out.text, RateLimitText)
    \/ /\ out.kind = "api"
       /\ Contains(out.text, RateLimitText) \/ Contains(out.text, TooManyText)

\* A delay that grows by the base delay with each attempt.
Pow2Linear(n) == n + 1

\* Line 885 and 901: 1<<attempt.
RECURSIVE Pow2(_)
Pow2(n) == IF n = 0 THEN 1 ELSE 2 * Pow2(n - 1)

\* The loop retrying whatever the failure was.
RECURSIVE photoInfoLoopAnyError(_, _, _)
photoInfoLoopAnyError(script, attempt, trace) ==
    IF attempt >= maxRetries THEN [err |-> TRUE, trace |-> trace]
    ELSE LET out == script[attempt + 1]
             t == Append(trace, <<"info", out>>)
         IN IF out.kind = "ok" THEN [err |-> FALSE, trace |-> t]
            ELSE IF attempt < maxRetries - 1
            THEN photoInfoLoopAnyError(script, attempt + 1,
                     Append(t, Sleep(baseDelay * Pow2(attempt))))
            ELSE [err |-> TRUE, trace |-> t]

\* getPhotoInfo from iteration `attempt` on; script[k] is what the k-th
\* request comes to.  The trace lists the requests made and the sleeps.
RECURSIVE photoInfoLoop(_, _, _)
photoInfoLoop(script, attempt, trace) ==
    IF attempt >= maxRetries THEN [err |-> TRUE, trace |-> trace]
    ELSE LET out == script[attempt + 1]
             t == Append(trace, <<"info", out>>)
         IN IF out.kind = "ok" THEN [err |-> FALSE, trace |-> t]
            ELSE IF RateLimited(out) /\ attempt < maxRetries - 1
            THEN photoInfoLoop(script, attempt + 1,
                     Append(t, Sleep(baseDelay * Pow2(attempt))))
            ELSE [err |-> TRUE, trace |-> t]

getPhotoInfo(script) == photoInfoLoop(script, 0, <<>>)

\* What one downloadPhotoAttempt can come to: http.Get fails; the response
\* has a status; with status 200, os.Create fails, io.Copy fails part way,
\* or the body is written whole.
GetOK == [kind |-> "ok", code |-> StatusOK]
GetOutcomes ==
    {GetOK,
     [kind |-> "status", code |-> TooManyRequests],
     [kind |-> "status", code |-> 404],
     [kind |-> "transport", code |-> 0],
     [kind |-> "create", code |-> StatusOK],
     [kind |-> "copy", code |-> StatusOK]}

\* downloadPhotoAttempt: the error it returns and what it leaves at outputPath.
downloadPhotoAttempt(out) ==
    CASE out.kind = "transport" ->
            [err |-> <<"d", "i", "a", "l">>, wrote |-> "none"]
      [] out.code # StatusOK ->
            [err |-> <<"H", "T", "T", "P", " ">> \o StatusDigits(out.code),
             wrote |-> "none"]
      [] out.kind = "create" ->
            [err |-> <<"o", "p", "e", "n">>, wrote |-> "none"]
      [] out.kind = "copy" ->
            [err |-> <<"r", "e", "s", "e", "t">>, wrote |-> "partial"]
      [] OTHER -> [err |-> NilErr, wrote |-> "full"]

\* downloadPhoto retrying after any failed first attempt.
downloadPhotoAlwaysRetry(script) ==
    LET first == downloadPhotoAttempt(script[1])
        retry == downloadPhotoAttempt(script[2])
    IN IF first.err = NilErr
       THEN [err |-> FALSE, trace |-> <<<<"get", script[1]>>>>,
             wrote |-> <<first.wrote>>]
       ELSE [err |-> retry.err # NilErr,
             trace |-> <<<<"get", script[1]>>, Sleep(retryWait), <<"get", script[2]>>>>,
             wrote |-> <<first.wrote, retry.wrote>>]

\* downloadPhoto; script[k] is what the k-th attempt comes to.  `wrote` lists
\* what each attempt made left at outputPath.
downloadPhoto(script) ==
    LET first == downloadPhotoAttempt(script[1])
        retry == downloadPhotoAttempt(script[2])
    IN IF first.err = NilErr
       THEN [err |-> FALSE, trace |-> <<<<"get", script[1]>>>>,
             wrote |-> <<first.wrote>>]
       ELSE IF Contains(first.err, HTTP429)
       THEN [err |-> retry.err # NilErr,
             trace |-> <<<<"get", script[1]>>, Sleep(retryWait), <<"get", script[2]>>>>,
             wrote |-> <<first.wrote, retry.wrote>>]
       ELSE [err |-> TRUE, trace |-> <<<<"get", script[1]>>>>,
             wrote |-> <<first.wrote>>]

\* exiftool.WriteMetadata(fileMetadata): the outcome of each file is stored in
\* the Err field of its element of the slice.
WriteMetadata(fileMetadata, outcome) ==
    [i \in DOMAIN fileMetadata |-> [fileMetadata[i] EXCEPT !.Err = outcome]]

TagOutcomes == {NilErr, <<"w", "r", "i", "t", "e">>}
NoTagger == "nil"

\* writeMetadata: line 615 hands WriteMetadata a slice literal holding a copy
\* of fm, and line 618 reads the Err of fm itself.
writeMetadata(et, outcome) ==
    IF et = NoTagger THEN NilErr
    ELSE LET fm == [File |-> "photoPath", Err |-> NilErr]
             written == WriteMetadata(<<fm>>, outcome)
         IN fm.Err

\* The fields set with a value when it is not empty, the description too.
requestedFieldsAnyCaption(photo) ==
    LET names == (IF photo.Title # <<>> THEN {"IPTC:ObjectName"} ELSE {})
                 \cup {"IPTC:Caption-Abstract"}
                 \cup (IF Len(photo.Tags) > 0
                       THEN {"IPTC:Keywords", "XMP:Subject"} ELSE {})
                 \cup {"-overwrite_original"}
    IN [n \in names |->
          CASE n = "IPTC:ObjectName" -> photo.Title
            [] n = "IPTC:Caption-Abstract" -> photo.Description
            [] n \in {"IPTC:Keywords", "XMP:Subject"} -> photo.Tags
            [] OTHER -> <<>>]

\* writeMetadata, lines 593-612: the fields of the FileMetadata handed to
\* WriteMetadata, each with the value set for it.
requestedFields(photo) ==
    LET names == (IF photo.Title # <<>> THEN {"IPTC:ObjectName"} ELSE {})
                 \cup (IF photo.Description # <<>>
                       THEN {"IPTC:Caption-Abstract"} ELSE {})
                 \cup (IF Len(photo.Tags) > 0
                       THEN {"IPTC:Keywords", "XMP:Subject"} ELSE {})
                 \cup {"-overwrite_original"}
    IN [n \in names |->
          CASE n = "IPTC:ObjectName" -> photo.Title
            [] n = "IPTC:Caption-Abstract" -> photo.Description
            [] n \in {"IPTC:Keywords", "XMP:Subject"} -> photo.Tags
            [] OTHER -> <<>>]


\* ------------------------------------------------------------ the catalog
\* The photos of the account.  Photos 1 and 3 have different URLs with the
\* same last segment.
PhotoItems ==
    <<[Id |-> 1, URLO |-> <<"u", "/", "x">>],
      [Id |-> 2, URLO |-> <<"u", "/", "y">>],
      [Id |-> 3, URLO |-> <<"v", "/", "x">>]>>
PhotoIds == {PhotoItems[i].Id : i \in DOMAIN PhotoItems}

\* Two photosets made on the same day.  The second has either a title that
\* sanitizes to the title of the first, or another title.
SetTitles == {<<"t", ":">>, <<"s">>}
SetA == [Id |-> "A", Title |-> <<"t", "/">>, DateCreate |-> TicksPerDay]
SetB(title) == [Id |-> "B", Title |-> title, DateCreate |-> TicksPerDay + 1]
AlbumIds == {"A", "B"}

\* Photoset A holds the first two photos, photoset B the first.
Remotes ==
    {[photosets |-> <<SetA, SetB(title)>>,
      members |-> [id \in AlbumIds |->
                      IF id = "A" THEN SubSeq(PhotoItems, 1, 2)
                      ELSE SubSeq(PhotoItems, 1, 1)],
      photos |-> PhotoItems] : title \in SetTitles}

\* The same account with a second photoset that has no creation date.
UndatedRemotes ==
    {[r EXCEPT !.photosets[2].DateCreate = 0] : r \in Remotes}

\* ------------------------------------------------------------- the disk
UnorganizedDir == <<"U", "n", "o", "r", "g">>

\* The directory named by the date and the title as it is.
albumDirRawTitle(album) ==
    FormatDate(album.DateCreated) \o <<" ">> \o album.Title

\* downloadAlbum, lines 475-477: the directory of an album.
albumDir(album) ==
    FormatDate(album.DateCreated) \o <<" ">> \o sanitizeFilename(album.Title)

Join(dir, filename) == <<dir, filename>>

NoFile == [asset |-> 0, body |-> "absent", tagged |-> FALSE]

Dirs(r) ==
    {albumDir(parseAlbumFromStruct(r.photosets[i])) : i \in DOMAIN r.photosets}
        \cup {albumDir(parseAlbumFromCollectionSet(r.photosets[i], infoErr, now)) :
                 i \in DOMAIN r.photosets, infoErr \in BOOLEAN, now \in Clock}
        \cup {UnorganizedDir}
Names(r) == {LastSegment(r.photos[i].URLO) : i \in DOMAIN r.photos}
Paths(r) == {Join(d, n) : d \in Dirs(r), n \in Names(r)}

\* The files an earlier run on the same catalog can have left: a photo of an
\* album in the directory of the album, any photo in the directory of the
\* unorganized ones; a file is empty, or whole and tagged.
LeftOver(r) ==
    UNION {{<<Join(albumDir(parseAlbumFromStruct(r.photosets[i])),
                   LastSegment(r.members[r.photosets[i].Id][j].URLO)),
              r.members[r.photosets[i].Id][j].Id>> :
               j \in DOMAIN r.members[r.photosets[i].Id]} :
           i \in DOMAIN r.photosets}
    \cup {<<Join(UnorganizedDir, LastSegment(r.photos[i].URLO)), r.photos[i].Id>> :
             i \in DOMAIN r.photos}

DiskOf(r, files, used) ==
    [p \in Paths(r) |->
        IF \E k \in used : files[k][1][1] = p
        THEN LET k == CHOOSE k \in used : files[k][1][1] = p
             IN [asset |-> files[k][1][2], body |-> files[k][2],
                 tagged |-> files[k][2] = "full"]
        ELSE NoFile]

\* The disks an earlier run can have left: nothing, or one file.
ResumeDisks(r) ==
    {DiskOf(r, <<file>>, used) :
        file \in LeftOver(r) \X {"empty", "full"}, used \in SUBSET {1}}

\* The disks a run killed at any point can have left: those above, or one
\* file whose body was cut short, or whose body is whole and not yet tagged.
InterruptedDisks(r) ==
    ResumeDisks(r)
        \cup {[DiskOf(r, <<file>>, {1}) EXCEPT ![file[1][1]].tagged = FALSE] :
                 file \in LeftOver(r) \X {"partial", "full"}}

\* ------------------------------------------------------------- the state
VARIABLES
    mode,             \* "all" (ExportAllPhotos), "album" (ExportAlbum), or a
                      \* function called alone: "pages", "retry"
    remote,           \* the catalog of the account
    disk,             \* the files of the output directory
    downloadedFiles,  \* the registry of filenames of ExportAllPhotos
    mutex,            \* the worker holding downloadedFilesMutex, 0: none
    phase,            \* where ExportAllPhotos / ExportAlbum is
    albums,           \* the albums listed by getAllAlbums
    unorganizedPhotos,\* the photos left by the filter
    workChan,         \* albumChan, then photoChan
    errorChan,        \* the outcomes sent and not yet received
    errorCap,         \* the capacity of errorChan
    errors,           \* len(errors) of ExportAllPhotos
    ret,              \* what the command returned: "none" before it does
    wpc,              \* each exporter's place
    wunit,            \* the album or photo a worker took
    wphotos,          \* album.Photos of the album being downloaded
    widx,             \* the index of the photo reached
    wfailed,          \* failedDownloads
    wpending,         \* the outcome a worker is about to send
    wlast,            \* how the processing of the last photo ended
    wops,             \* the operations done for the photo reached last
    wuses,            \* the sessions each exporter used for what it has in hand
    feClosed,         \* whether Close() was called on the exporter of the command
    args,             \* the identifiers the command has still to export
    dl,               \* calls of downloadPhoto, per container and photo
    taken,            \* receptions from workChan, per album and photo
    created,          \* the files created by this run, with their photo
    failureOccurred,  \* some operation of the run failed
    trace,            \* the requests and sleeps made for the photo reached last
    listing,          \* a listing given to a listing loop called alone
    replies,          \* the answers given to a retry loop called alone
    given,            \* the argument of a pure function called alone
    result            \* what the function called alone returned

vars == <<mode, remote, disk, downloadedFiles, mutex, phase, albums,
          unorganizedPhotos, workChan, errorChan, errorCap, errors, ret,
          wpc, wunit, wphotos, widx, wfailed, wpending, wlast, wops, wuses,
          dl, taken, created, failureOccurred, trace, listing, replies, given,
          feClosed, args,
          result>>

workerVars == <<wpc, wunit, wphotos, widx, wfailed, wpending, wlast, wops, wuses>>
dispatchVars == <<phase, albums, unorganizedPhotos, workChan, errors, ret>>
listingVars == <<listing, replies, given, result>>
commandVars == <<feClosed, args>>

Exporters == {Parent} \cup Workers
NoUnit == [ID |-> "none"]
Containers == AlbumIds \cup {"U"}
\* A photo of a container, or (with 0) the album itself as a unit of work.
Units == Containers \X (PhotoIds \cup {0})


\* ------------------------------------------------------- the photo steps
\* The exporter of the command (NewFlickrExporter, lines 61-84): its client
\* and its exiftool, named after the goroutine that made them.
fe == [client |-> Parent, et |-> Parent]

\* The workers all calling through the exporter of the command.
parentExporter(w) == fe

\* Lines 168-185 and 666-683: each worker goroutine makes an exiftool and a
\* client of its own and calls through the exporter holding them.
workerExporter(w) == [client |-> w, et |-> w]

\* The exporter whose methods the steps of e are.
ExporterOf(e) == IF e = Parent THEN fe ELSE workerExporter(e)

\* A request to the catalog, a write of metadata: the session it goes through.
ViaClient(e) == <<"client", ExporterOf(e).client>>
ViaTagger(e) == <<"et", ExporterOf(e).et>>

\* Whether an exporter is inside downloadAlbum (else: unorganizedPhotoWorker).
InAlbum(w) == phase \in {"albums", "album", "collection"}
Photo(w) == IF InAlbum(w) THEN wphotos[w][widx[w]] ELSE wunit[w]
Dir(w) == IF InAlbum(w) THEN albumDir(wunit[w]) ELSE UnorganizedDir
photoPath(w) == Join(Dir(w), Photo(w).Filename)
Container(w) == IF InAlbum(w) THEN wunit[w].ID ELSE "U"

\* The requests and sleeps made for a photo are kept by ExportAlbum only.
Log(events) == IF mode = "album" THEN events ELSE <<>>

\* The existence test taken as a test for a file with content.
ExistsNonEmpty(path) == disk[path].body \in {"partial", "full"}

\* os.Stat(photoPath) returning no error (lines 495 and 730).
Exists(path) == disk[path] # NoFile

\* The answers to the requests of one getPhotoInfo or downloadPhoto call
\* made during a command: every request of the call is answered alike.
InfoScripts == {[k \in 1..maxRetries |-> o] : o \in InfoOutcomes}
GetScripts == {[k \in 1..2 |-> o] : o \in GetOutcomes}

\* The end of the processing of a photo when a failed photo is tried again.
EndPhotoRetrying(w, how, isFailure) ==
    /\ wlast' = [wlast EXCEPT ![w] = how]
    /\ IF isFailure
       THEN /\ wpc' = [wpc EXCEPT ![w] = "stat"]
            /\ UNCHANGED <<wfailed, widx, wpending>>
       ELSE /\ UNCHANGED wfailed
            /\ widx' = [widx EXCEPT ![w] = @ + 1]
            /\ IF InAlbum(w) /\ widx[w] < Len(wphotos[w])
               THEN /\ wpc' = [wpc EXCEPT ![w] = "stat"]
                    /\ UNCHANGED wpending
               ELSE /\ wpc' = [wpc EXCEPT ![w] = "send"]
                    /\ wpending' = [wpending EXCEPT ![w] = "nil"]

\* The end of the processing of a photo: downloadAlbum appends a failure to
\* failedDownloads and goes on with the next photo, returning an error after
\* the last one if the list is not empty; unorganizedPhotoWorker sends the
\* outcome of the photo.
EndPhoto(w, how, isFailure) ==
    LET failedNow == IF isFailure THEN Append(wfailed[w], Photo(w).Filename)
                     ELSE wfailed[w]
    IN /\ wlast' = [wlast EXCEPT ![w] = how]
       /\ IF InAlbum(w)
          THEN /\ wfailed' = [wfailed EXCEPT ![w] = failedNow]
               /\ widx' = [widx EXCEPT ![w] = @ + 1]
               /\ IF widx[w] < Len(wphotos[w])
                  THEN /\ wpc' = [wpc EXCEPT ![w] = "stat"]
                       /\ UNCHANGED wpending
                  ELSE /\ wpc' = [wpc EXCEPT ![w] = "send"]
                       /\ wpending' = [wpending EXCEPT ![w] =
                              IF failedNow # <<>> THEN "err" ELSE "nil"]
          ELSE /\ UNCHANGED <<wfailed, widx>>
               /\ wpc' = [wpc EXCEPT ![w] = "send"]
               /\ wpending' = [wpending EXCEPT ![w] =
                      IF isFailure THEN "err" ELSE "nil"]

\* The existence test and fetchPhotoMetadata, with the download started
\* whatever the fetch returned.
StatPhotoThenGet(w) ==
    /\ wpc[w] = "stat"
    /\ IF Exists(photoPath(w))
       THEN /\ EndPhoto(w, "skipped", FALSE)
            /\ wops' = [wops EXCEPT ![w] = {}]
            /\ wuses' = [wuses EXCEPT ![w] = {}]
            /\ trace' = Log(<<<<"stat", TRUE>>>>)
            /\ UNCHANGED failureOccurred
       ELSE \E script \in InfoScripts :
              LET r == getPhotoInfo(script)
              IN /\ wops' = [wops EXCEPT ![w] = {"info"}]
                 /\ wuses' = [wuses EXCEPT ![w] = {ViaClient(w)}]
                 /\ trace' = Log(<<<<"stat", FALSE>>>> \o r.trace)
                 /\ wpc' = [wpc EXCEPT ![w] = "get"]
                 /\ wlast' = [wlast EXCEPT ![w] =
                                  IF r.err THEN "infofailed" ELSE @]
                 /\ failureOccurred' = (failureOccurred \/ r.err)
                 /\ UNCHANGED <<widx, wfailed, wpending>>
    /\ UNCHANGED <<mode, remote, disk, downloadedFiles, mutex, dispatchVars,
                   errorChan, errorCap, wunit, wphotos, dl, taken, created,
                   listingVars,
                   commandVars>>

\* Lines 492-507 and 727-742: the existence test, then fetchPhotoMetadata.
StatPhoto(w) ==
    /\ wpc[w] = "stat"
    /\ IF Exists(photoPath(w))
       THEN /\ EndPhoto(w, "skipped", FALSE)
            /\ wops' = [wops EXCEPT ![w] = {}]
            /\ wuses' = [wuses EXCEPT ![w] = {}]
            /\ trace' = Log(<<<<"stat", TRUE>>>>)
            /\ UNCHANGED failureOccurred
       ELSE \E script \in InfoScripts :
              LET r == getPhotoInfo(script)
              IN /\ wops' = [wops EXCEPT ![w] = {"info"}]
                 /\ wuses' = [wuses EXCEPT ![w] = {ViaClient(w)}]
                 /\ trace' = Log(<<<<"stat", FALSE>>>> \o r.trace)
                 /\ IF r.err
                    THEN /\ EndPhoto(w, "infofailed", TRUE)
                         /\ failureOccurred' = TRUE
                    ELSE /\ wpc' = [wpc EXCEPT ![w] = "get"]
                         /\ UNCHANGED <<widx, wfailed, wpending, wlast,
                                        failureOccurred>>
    /\ UNCHANGED <<mode, remote, disk, downloadedFiles, mutex, dispatchVars,
                   errorChan, errorCap, wunit, wphotos, dl, taken, created,
                   listingVars,
                   commandVars>>

\* What the attempts of one downloadPhoto call leave at a path: os.Create
\* truncates the file, io.Copy writes the body or part of it.
RECURSIVE Written(_, _, _)
Written(file, asset, wrote) ==
    IF wrote = <<>> THEN file
    ELSE Written(IF Head(wrote) = "none" THEN file
                 ELSE [asset |-> asset, body |-> Head(wrote), tagged |-> FALSE],
                 asset, Tail(wrote))

\* Lines 509-513 and 744-747: downloadPhoto.
Download(w) ==
    /\ wpc[w] = "get"
    /\ \E script \in GetScripts :
         LET r == downloadPhoto(script)
             path == photoPath(w)
             unit == <<Container(w), Photo(w).ID>>
         IN /\ disk' = [disk EXCEPT ![path] = Written(@, Photo(w).ID, r.wrote)]
            /\ dl' = [dl EXCEPT ![unit] = @ + 1]
            /\ created' = IF \E i \in DOMAIN r.wrote : r.wrote[i] # "none"
                          THEN created \cup {<<path, Photo(w).ID>>}
                          ELSE created
            /\ wops' = [wops EXCEPT ![w] = @ \cup {"get"}]
            /\ UNCHANGED wuses
            /\ trace' = Log(trace \o r.trace)
            /\ IF r.err
               THEN /\ EndPhoto(w, "getfailed", TRUE)
                    /\ failureOccurred' = TRUE
               ELSE /\ wpc' = [wpc EXCEPT ![w] = "tag"]
                    /\ UNCHANGED <<widx, wfailed, wpending, wlast,
                                   failureOccurred>>
    /\ UNCHANGED <<mode, remote, downloadedFiles, mutex, dispatchVars,
                   errorChan, errorCap, wunit, wphotos, taken, listingVars,
                   commandVars>>

\* Lines 515-530 and 749-763: writeMetadata, the removal of the file when it
\* returns an error, and the pause after a photo that went through.
Tag(w) ==
    /\ wpc[w] = "tag"
    /\ \E outcome \in TagOutcomes :
         LET err == writeMetadata("open", outcome)
             path == photoPath(w)
             pause == IF InAlbum(w) /\ widx[w] >= Len(wphotos[w])
                      THEN <<>> ELSE <<Pause>>
         IN /\ wops' = [wops EXCEPT ![w] =
                  @ \cup {"tag"} \cup (IF outcome # NilErr THEN {"tagerr"} ELSE {})]
            /\ wuses' = [wuses EXCEPT ![w] = @ \cup {ViaTagger(w)}]
            /\ failureOccurred' = (failureOccurred \/ outcome # NilErr)
            /\ IF err # NilErr
               THEN /\ disk' = [disk EXCEPT ![path] = NoFile]
                    /\ trace' = Log(Append(trace, <<"tag", outcome>>))
                    /\ EndPhoto(w, "tagfailed", TRUE)
               ELSE /\ disk' = [disk EXCEPT ![path] =
                           IF outcome = NilErr /\ @ # NoFile
                           THEN [@ EXCEPT !.tagged = TRUE] ELSE @]
                    /\ trace' = Log(Append(trace, <<"tag", outcome>>) \o pause)
                    /\ EndPhoto(w, "done", FALSE)
    /\ UNCHANGED <<mode, remote, downloadedFiles, mutex, dispatchVars,
                   errorChan, errorCap, wunit, wphotos, dl, taken, created,
                   listingVars,
                   commandVars>>


\* ---------------------------------------------------------- the workers
\* The workers of a pool run the same code on the same arguments: two workers
\* at the same place with nothing in hand are interchangeable, and of such
\* workers the one with the lowest number moves.
First(w) == \A v \in Workers : v < w => wpc[v] # wpc[w]

NoOutcomes == [nil |-> 0, err |-> 0]
Buffered(ch) == ch.nil + ch.err

\* What a worker holds between two units of work.
Released(w) ==
    /\ wunit' = [wunit EXCEPT ![w] = NoUnit]
    /\ wphotos' = [wphotos EXCEPT ![w] = <<>>]
    /\ widx' = [widx EXCEPT ![w] = 0]
    /\ wfailed' = [wfailed EXCEPT ![w] = <<>>]
    /\ wpending' = [wpending EXCEPT ![w] = "nil"]
    /\ wlast' = [wlast EXCEPT ![w] = "none"]
    /\ wops' = [wops EXCEPT ![w] = {}]
    /\ wuses' = [wuses EXCEPT ![w] = {}]

\* `for ... := range` on the closed channel: a worker with nothing in hand
\* returns as soon as the channel is empty.  Nothing it holds is shared, so
\* it is taken to return with the step that left the channel empty.
AfterLoop(w, chan) == IF chan = <<>> THEN "done" ELSE "idle"
Returning(pcs, chan) ==
    [e \in Exporters |-> IF pcs[e] = "idle" THEN AfterLoop(e, chan) ELSE pcs[e]]

\* A send on errorChan (lines 172, 259, 274, 279, 670, 734-763): it waits
\* while the buffer is full.  The worker that could not start its exiftool
\* returns after the send, the others go on with the loop.  The outcomes are
\* only counted by the receiver, so the channel is kept as the count of each.
SendResult(w) ==
    /\ wpc[w] \in {"send", "initfailed"}
    /\ w \in Workers
    /\ wpc[w] = "initfailed" => First(w)
    /\ Buffered(errorChan) < errorCap
    /\ errorChan' = [errorChan EXCEPT ![wpending[w]] = @ + 1]
    /\ wpc' = [wpc EXCEPT ![w] = IF wpc[w] = "initfailed" THEN "done"
                                 ELSE AfterLoop(w, workChan)]
    /\ Released(w)
    /\ UNCHANGED <<mode, remote, disk, downloadedFiles, mutex, dispatchVars,
                   errorCap, dl, taken, created, failureOccurred, trace,
                   listingVars,
                   commandVars>>

\* `for album := range albumChan`: the next album.
TakeAlbum(w) ==
    /\ phase = "albums"
    /\ wpc[w] = "idle"
    /\ First(w)
    /\ workChan # <<>>
    /\ wunit' = [wunit EXCEPT ![w] = Head(workChan)]
    /\ workChan' = Tail(workChan)
    /\ taken' = [taken EXCEPT ![<<Head(workChan).ID, 0>>] = @ + 1]
    /\ wpc' = Returning([wpc EXCEPT ![w] = "list"], Tail(workChan))
    /\ UNCHANGED <<mode, remote, disk, downloadedFiles, mutex, phase, albums,
                   unorganizedPhotos, errors, ret, errorChan, errorCap, wphotos,
                   widx, wfailed, wpending, wlast, wops, wuses, dl, created,
                   failureOccurred, trace, listingVars,
                   commandVars>>

\* The page whose request fails during one listing, 0 when none does.
FailPages(l) == 0..(IF l.pages > 1 THEN l.pages ELSE 1)

\* Lines 256-262: getAlbumPhotos through the worker's exporter.
ListAlbum(w) ==
    /\ wpc[w] = "list"
    /\ \E failAt \in FailPages(ListingOf(remote.members[wunit[w].ID])) :
         LET r == getAlbumPhotos(ListingOf(remote.members[wunit[w].ID]), failAt)
         IN IF r.err
            THEN /\ wpending' = [wpending EXCEPT ![w] = "err"]
                 /\ wpc' = [wpc EXCEPT ![w] = "send"]
                 /\ failureOccurred' = TRUE
                 /\ UNCHANGED wphotos
            ELSE /\ wphotos' = [wphotos EXCEPT ![w] = r.items]
                 /\ wpc' = [wpc EXCEPT ![w] = "lock"]
                 /\ UNCHANGED <<wpending, failureOccurred>>
    /\ wuses' = [wuses EXCEPT ![w] = {ViaClient(w)}]
    /\ UNCHANGED <<mode, remote, disk, downloadedFiles, mutex, dispatchVars,
                   errorChan, errorCap, wunit, widx, wfailed, wlast, wops, dl,
                   taken, created, trace, listingVars,
                   commandVars>>

\* The worker going on to the registry without waiting for the mutex.
LockNotWaiting(w) ==
    /\ wpc[w] = "lock"
    /\ mutex' = w
    /\ wpc' = [wpc EXCEPT ![w] = "track"]
    /\ UNCHANGED <<mode, remote, disk, downloadedFiles, dispatchVars, errorChan,
                   errorCap, wunit, wphotos, widx, wfailed, wpending, wlast,
                   wops, wuses, dl, taken, created, failureOccurred, trace, listingVars,
                   commandVars>>

\* Line 265: mutex.Lock()
Lock(w) ==
    /\ wpc[w] = "lock"
    /\ mutex = 0
    /\ mutex' = w
    /\ wpc' = [wpc EXCEPT ![w] = "track"]
    /\ UNCHANGED <<mode, remote, disk, downloadedFiles, dispatchVars, errorChan,
                   errorCap, wunit, wphotos, widx, wfailed, wpending, wlast,
                   wops, wuses, dl, taken, created, failureOccurred, trace, listingVars,
                   commandVars>>

\* The filenames of the photos listed.
Filenames(photos) == {photos[i].Filename : i \in DOMAIN photos}

\* downloadAlbum with a loop that starts at the last photo of the listing.
BeginAlbumAtLast(w, photos) ==
    \/ /\ wpc' = [wpc EXCEPT ![w] = "send"]
       /\ wpending' = [wpending EXCEPT ![w] = "err"]
       /\ failureOccurred' = TRUE
       /\ UNCHANGED <<widx, wfailed>>
    \/ /\ widx' = [widx EXCEPT ![w] = IF photos # <<>> THEN Len(photos) ELSE 1]
       /\ wfailed' = [wfailed EXCEPT ![w] = <<>>]
       /\ IF photos # <<>>
          THEN /\ wpc' = [wpc EXCEPT ![w] = "stat"]
               /\ UNCHANGED wpending
          ELSE /\ wpc' = [wpc EXCEPT ![w] = "send"]
               /\ wpending' = [wpending EXCEPT ![w] = "nil"]
       /\ UNCHANGED failureOccurred

\* downloadAlbum up to its loop (lines 473-485): MkdirAll fails, or the loop
\* starts at the first photo, or there is no photo and nil is returned.
BeginAlbum(w, photos) ==
    \/ /\ wpc' = [wpc EXCEPT ![w] = "send"]
       /\ wpending' = [wpending EXCEPT ![w] = "err"]
       /\ failureOccurred' = TRUE
       /\ UNCHANGED <<widx, wfailed>>
    \/ /\ widx' = [widx EXCEPT ![w] = 1]
       /\ wfailed' = [wfailed EXCEPT ![w] = <<>>]
       /\ IF photos # <<>>
          THEN /\ wpc' = [wpc EXCEPT ![w] = "stat"]
               /\ UNCHANGED wpending
          ELSE /\ wpc' = [wpc EXCEPT ![w] = "send"]
               /\ wpending' = [wpending EXCEPT ![w] = "nil"]
       /\ UNCHANGED failureOccurred

\* The worker entering downloadAlbum without filling the registry.
TrackNothing(w) ==
    /\ wpc[w] = "track"
    /\ mutex = w
    /\ mutex' = 0
    /\ BeginAlbum(w, wphotos[w])
    /\ UNCHANGED <<mode, remote, disk, downloadedFiles, dispatchVars, errorChan,
                   errorCap, wunit, wphotos, wlast, wops, wuses, dl, taken, created,
                   trace, listingVars,
                   commandVars>>

\* Lines 266-272: the filenames go into the registry, the mutex is released
\* and downloadAlbum is entered.
Track(w) ==
    /\ wpc[w] = "track"
    /\ mutex = w
    /\ downloadedFiles' = downloadedFiles \cup Filenames(wphotos[w])
    /\ mutex' = 0
    /\ BeginAlbum(w, wphotos[w])
    /\ UNCHANGED <<mode, remote, disk, dispatchVars, errorChan, errorCap, wunit,
                   wphotos, wlast, wops, wuses, dl, taken, created, trace, listingVars,
                   commandVars>>

\* `for photo := range photoChan`
TakePhoto(w) ==
    /\ phase = "unorganized"
    /\ wpc[w] = "idle"
    /\ First(w)
    /\ workChan # <<>>
    /\ wunit' = [wunit EXCEPT ![w] = Head(workChan)]
    /\ workChan' = Tail(workChan)
    /\ taken' = [taken EXCEPT ![<<"U", Head(workChan).ID>>] = @ + 1]
    /\ wpc' = Returning([wpc EXCEPT ![w] = "stat"], Tail(workChan))
    /\ UNCHANGED <<mode, remote, disk, downloadedFiles, mutex, phase, albums,
                   unorganizedPhotos, errors, ret, errorChan, errorCap, wphotos,
                   widx, wfailed, wpending, wlast, wops, wuses, dl, created,
                   failureOccurred, trace, listingVars,
                   commandVars>>


\* ------------------------------------------------------- ExportAllPhotos
\* How many workers of a pool cannot start: none, one, or all of them.
Failing == {0, 1, numWorkers}

\* The four goroutines of a pool (lines 165-188 and 663-686).  Each starts
\* its own exiftool, which touches nothing shared: the `failing` workers
\* that cannot start it are left about to send their error.
Spawned(failing, chan) ==
    /\ wpc' = [e \in Exporters |->
                  IF e \notin Workers THEN "off"
                  ELSE IF e > numWorkers - failing THEN "initfailed"
                  ELSE AfterLoop(e, chan)]
    /\ wunit' = [e \in Exporters |-> NoUnit]
    /\ wphotos' = [e \in Exporters |-> <<>>]
    /\ widx' = [e \in Exporters |-> 0]
    /\ wfailed' = [e \in Exporters |-> <<>>]
    /\ wpending' = [e \in Exporters |->
                       IF e \in Workers /\ e > numWorkers - failing
                       THEN "err" ELSE "nil"]
    /\ wlast' = [e \in Exporters |-> "none"]
    /\ wops' = [e \in Exporters |-> {}]
    /\ wuses' = [e \in Exporters |-> IF e = Parent THEN {ViaClient(e)} ELSE {}]

\* Lines 87-91, deferred at lines 94, 114 and 144: Close() closes the exiftool
\* of the exporter and leaves fe.et as it is.
Close == feClosed' = TRUE

\* The return that reports an error only when there are several.
ReturnUnlessOne(n) ==
    /\ errors' = n
    /\ ret' = IF n > 1 THEN "err" ELSE "nil"
    /\ phase' = "returned"
    /\ Close

\* Lines 215-225: the error returned when errors is not empty.
Return(n) ==
    /\ errors' = n
    /\ ret' = IF n > 0 THEN "err" ELSE "nil"
    /\ phase' = "returned"
    /\ Close

\* Lines 143-194: getAllAlbums; on success the channels are made, the workers
\* started, and every album sent on albumChan, which is then closed.
ListAlbums ==
    /\ mode = "all"
    /\ phase = "start"
    /\ \E failAt \in FailPages(ListingOf(remote.photosets)) :
         LET r == getAllAlbums(ListingOf(remote.photosets), failAt)
         IN IF r.err
            THEN /\ ret' = "err"
                 /\ phase' = "returned"
                 /\ failureOccurred' = TRUE
                 /\ Close
                 /\ UNCHANGED <<albums, workChan, errorChan, errorCap, workerVars>>
            ELSE \E failing \in Failing :
                 /\ UNCHANGED feClosed
                 /\ albums' = r.items
                 /\ workChan' = r.items
                 /\ errorChan' = NoOutcomes
                 /\ errorCap' = Len(r.items)
                 /\ phase' = "albums"
                 /\ Spawned(failing, r.items)
                 /\ failureOccurred' = (failing > 0)
                 /\ UNCHANGED ret
    /\ UNCHANGED <<mode, remote, disk, downloadedFiles, mutex, unorganizedPhotos,
                   errors, dl, taken, created, trace, listingVars,
                   args>>

\* The wait that returns as soon as one worker is done.
AnyDone == \E w \in Workers : wpc[w] = "done"

\* wg.Wait() (lines 197 and 695): every worker has called wg.Done.
AllDone == \A w \in Workers : wpc[w] = "done"

\* Lines 196-206: wg.Wait() returns, errorChan is closed and drained.
CollectAlbums ==
    /\ phase = "albums"
    /\ AllDone
    /\ errors' = errorChan.err
    /\ errorChan' = NoOutcomes
    /\ phase' = "collected"
    /\ UNCHANGED <<mode, remote, disk, downloadedFiles, mutex, albums,
                   unorganizedPhotos, workChan, ret, errorCap, workerVars, dl,
                   taken, created, failureOccurred, trace, listingVars,
                   commandVars>>

\* The filter keeping every photo.
FilterNothing(allPhotos, registry) == allPhotos

\* Lines 634-640: the photos whose filename is not in the registry.
FilterUnorganized(allPhotos, registry) ==
    SelectSeq(allPhotos, LAMBDA photo : photo.Filename \notin registry)

\* Lines 208-212 and 625-692: downloadUnorganizedPhotos up to the start of
\* its workers.  It returns at once when the listing fails, when no photo is
\* left by the filter and when the directory cannot be made.
StartUnorganized ==
    /\ phase = "collected"
    /\ \E failAt \in FailPages(ListingOf(remote.photos)), mkdir \in BOOLEAN :
         LET r == getAllPhotos(ListingOf(remote.photos), failAt)
             left == FilterUnorganized(r.items, downloadedFiles)
         IN IF r.err
            THEN /\ Return(errors + 1)
                 /\ failureOccurred' = TRUE
                 /\ UNCHANGED <<unorganizedPhotos, workChan, errorChan,
                                errorCap, workerVars>>
            ELSE IF left = <<>>
            THEN /\ Return(errors)
                 /\ UNCHANGED <<unorganizedPhotos, workChan, errorChan,
                                errorCap, workerVars, failureOccurred>>
            ELSE IF ~mkdir
            THEN /\ Return(errors + 1)
                 /\ failureOccurred' = TRUE
                 /\ unorganizedPhotos' = left
                 /\ UNCHANGED <<workChan, errorChan, errorCap, workerVars>>
            ELSE \E failing \in Failing :
                 /\ UNCHANGED feClosed
                 /\ unorganizedPhotos' = left
                 /\ workChan' = left
                 /\ errorChan' = NoOutcomes
                 /\ errorCap' = Len(left)
                 /\ phase' = "unorganized"
                 /\ Spawned(failing, left)
                 /\ failureOccurred' = (failureOccurred \/ failing > 0)
                 /\ UNCHANGED <<errors, ret>>
    /\ UNCHANGED <<mode, remote, disk, downloadedFiles, mutex, albums, dl,
                   taken, created, trace, listingVars,
                   args>>

\* Lines 694-718 and 211-225: the second pool has finished; one error stands
\* for all the photos that failed.
CollectUnorganized ==
    /\ phase = "unorganized"
    /\ AllDone
    /\ Return(errors + (IF errorChan.err > 0 THEN 1 ELSE 0))
    /\ errorChan' = NoOutcomes
    /\ UNCHANGED <<mode, remote, disk, downloadedFiles, mutex, albums,
                   unorganizedPhotos, workChan, errorCap, workerVars, dl, taken,
                   created, failureOccurred, trace, listingVars,
                   args>>

NoListing == [kind |-> "none", pages |-> 0, content |-> <<>>]
NoScript == [fn |-> "none", answers |-> <<>>]
NoResult == [fn |-> "none", failAt |-> 0, out |-> Listed(<<>>, <<>>)]

IdleRun ==
    /\ downloadedFiles = {}
    /\ mutex = 0
    /\ albums = <<>>
    /\ unorganizedPhotos = <<>>
    /\ workChan = <<>>
    /\ errorChan = NoOutcomes
    /\ errorCap = 0
    /\ errors = 0
    /\ ret = "none"
    /\ wpc = [e \in Exporters |-> "off"]
    /\ wunit = [e \in Exporters |-> NoUnit]
    /\ wphotos = [e \in Exporters |-> <<>>]
    /\ widx = [e \in Exporters |-> 0]
    /\ wfailed = [e \in Exporters |-> <<>>]
    /\ wpending = [e \in Exporters |-> "nil"]
    /\ wlast = [e \in Exporters |-> "none"]
    /\ wops = [e \in Exporters |-> {}]
    /\ wuses = [e \in Exporters |-> {}]
    /\ dl = [u \in Units |-> 0]
    /\ taken = [u \in Units |-> 0]
    /\ created = {}
    /\ failureOccurred = FALSE
    /\ trace = <<>>
    /\ result = NoResult
    /\ feClosed = FALSE

NoArgument == [fn |-> "none"]

Idle ==
    /\ IdleRun
    /\ listing = NoListing
    /\ replies = NoScript
    /\ given = NoArgument
    /\ args = <<>>

\* ExportAllPhotos on a catalog, over what an earlier run left on disk.
Init ==
    /\ mode = "all"
    /\ remote \in Remotes
    /\ disk \in ResumeDisks(remote)
    /\ phase = "start"
    /\ Idle

Next ==
    \/ ListAlbums
    \/ CollectAlbums
    \/ StartUnorganized
    \/ CollectUnorganized
    \/ \E w \in Workers :
         \/ TakeAlbum(w)
         \/ ListAlbum(w)
         \/ Lock(w)
         \/ Track(w)
         \/ TakePhoto(w)
         \/ StatPhoto(w)
         \/ Download(w)
         \/ Tag(w)
         \/ SendResult(w)

Spec == Init /\ [][Next]_vars

\* The Go scheduler runs every goroutine that can take a step: a run does
\* not stop while the dispatcher or a worker can move.
SpecFair == Spec /\ WF_vars(Next)


\* ------------------------------------------------------------ ExportAlbum
\* The photoset of the catalog with the given id.
SetOf(r, id) ==
    r.photosets[CHOOSE i \in DOMAIN r.photosets : r.photosets[i].Id = id]

\* Lines 93-111 and 473-485: getAlbumInfo, getAlbumPhotos, and downloadAlbum
\* up to its loop, run by the exporter of the command itself.
ExportAlbum ==
    /\ mode = "album"
    /\ phase = "start"
    /\ args # <<>>
    /\ \E albumID \in {Head(args)}, infoErr \in BOOLEAN, now \in Clock :
       \E failAt \in FailPages(ListingOf(remote.members[albumID])) :
         LET album == getAlbumInfo(albumID, SetOf(remote, albumID), now)
             r == getAlbumPhotos(ListingOf(remote.members[albumID]), failAt)
         IN IF infoErr \/ r.err
            THEN /\ ret' = "err"
                 /\ phase' = "returned"
                 /\ failureOccurred' = TRUE
                 /\ Close
                 /\ UNCHANGED <<wpc, wunit, wphotos, widx, wfailed, wpending>>
            ELSE /\ wunit' = [wunit EXCEPT ![Parent] = album]
                 /\ wphotos' = [wphotos EXCEPT ![Parent] = r.items]
                 /\ phase' = "album"
                 /\ BeginAlbum(Parent, r.items)
                 /\ UNCHANGED <<ret, feClosed>>
    /\ wuses' = [wuses EXCEPT ![Parent] = {ViaClient(Parent)}]
    /\ UNCHANGED <<mode, remote, disk, downloadedFiles, mutex, albums,
                   unorganizedPhotos, workChan, errorChan, errorCap, errors,
                   wlast, wops, dl, taken, created, trace, listingVars,
                   args>>

\* Lines 532-536 and 110: what downloadAlbum returns is what ExportAlbum returns.
ReturnAlbum ==
    /\ phase = "album"
    /\ wpc[Parent] = "send"
    /\ ret' = wpending[Parent]
    /\ phase' = "returned"
    /\ Close
    /\ wpc' = [wpc EXCEPT ![Parent] = "done"]
    /\ UNCHANGED <<mode, remote, disk, downloadedFiles, mutex, albums,
                   unorganizedPhotos, workChan, errorChan, errorCap, errors,
                   wunit, wphotos, widx, wfailed, wpending, wlast, wops, wuses, dl,
                   taken, created, failureOccurred, trace, listingVars,
                   args>>

\* The sets a collection of the account can hold: none, or its photosets.
Collections(r) == {<<>>, r.photosets}

\* Lines 113-124: getCollectionAlbums, an error of which is returned.
ExportCollection ==
    /\ mode = "collection"
    /\ phase = "start"
    /\ \E treeErr \in BOOLEAN, sets \in Collections(remote), now \in Clock :
       \E infoErrs \in [DOMAIN sets -> BOOLEAN] :
         LET r == getCollectionAlbums(sets, treeErr, infoErrs, now)
         IN IF r.err
            THEN /\ ret' = "err"
                 /\ phase' = "returned"
                 /\ failureOccurred' = TRUE
                 /\ Close
                 /\ UNCHANGED <<albums, workChan>>
            ELSE /\ UNCHANGED feClosed
                 /\ albums' = r.albums
                 /\ workChan' = r.albums
                 /\ phase' = "collection"
                 /\ failureOccurred' = (\E i \in DOMAIN sets : infoErrs[i])
                 /\ UNCHANGED ret
    /\ UNCHANGED <<mode, remote, disk, downloadedFiles, mutex,
                   unorganizedPhotos, errorChan, errorCap, errors, workerVars,
                   dl, taken, created, trace, listingVars,
                   args>>

\* Lines 126-135: the next album of the loop; a failed getAlbumPhotos is
\* printed and the loop continues, else downloadAlbum is entered.
CollectionAlbum ==
    /\ phase = "collection"
    /\ wpc[Parent] = "off"
    /\ workChan # <<>>
    /\ LET album == Head(workChan)
       IN \E failAt \in FailPages(ListingOf(remote.members[album.ID])) :
            LET r == getAlbumPhotos(ListingOf(remote.members[album.ID]), failAt)
            IN IF r.err
               THEN /\ failureOccurred' = TRUE
                    /\ UNCHANGED <<wpc, wunit, wphotos, widx, wfailed, wpending>>
               ELSE /\ wunit' = [wunit EXCEPT ![Parent] = album]
                    /\ wphotos' = [wphotos EXCEPT ![Parent] = r.items]
                    /\ BeginAlbum(Parent, r.items)
    /\ workChan' = Tail(workChan)
    /\ wuses' = [wuses EXCEPT ![Parent] = {ViaClient(Parent)}]
    /\ UNCHANGED <<mode, remote, disk, downloadedFiles, mutex, phase, albums,
                   unorganizedPhotos, errorChan, errorCap, errors, ret, wlast,
                   wops, dl, taken, created, trace, listingVars,
                   commandVars>>

\* Lines 135-137: what downloadAlbum returned is printed, not kept.
CollectionAlbumDone ==
    /\ phase = "collection"
    /\ wpc[Parent] = "send"
    /\ wpc' = [wpc EXCEPT ![Parent] = "off"]
    /\ UNCHANGED <<mode, remote, disk, downloadedFiles, mutex, dispatchVars,
                   errorChan, errorCap, wunit, wphotos, widx, wfailed, wpending,
                   wlast, wops, wuses, dl, taken, created, failureOccurred, trace,
                   listingVars,
                   commandVars>>

\* Line 140: after the last album, return nil.
ReturnCollection ==
    /\ phase = "collection"
    /\ wpc[Parent] = "off"
    /\ workChan = <<>>
    /\ ret' = "nil"
    /\ phase' = "returned"
    /\ Close
    /\ UNCHANGED <<mode, remote, disk, downloadedFiles, mutex, albums,
                   unorganizedPhotos, workChan, errorChan, errorCap, errors,
                   workerVars, dl, taken, created, failureOccurred, trace,
                   listingVars,
                   args>>

\* The answers a retry loop called alone may get: any outcome for each of the
\* requests it can make.
RetryScripts ==
    {[fn |-> "getPhotoInfo", answers |-> a] : a \in [1..maxRetries -> InfoOutcomes]}
    \cup {[fn |-> "downloadPhoto", answers |-> a] : a \in [1..2 -> GetOutcomes]}

\* One call of a retry loop on the answers drawn.
Retrying(fn, out) ==
    /\ mode = "retry"
    /\ phase = "start"
    /\ replies.fn = fn
    /\ result' = [fn |-> fn, failAt |-> 0, out |-> out]
    /\ phase' = "returned"
    /\ UNCHANGED <<mode, remote, disk, downloadedFiles, mutex, albums,
                   unorganizedPhotos, workChan, errorChan, errorCap, errors,
                   ret, workerVars, dl, taken, created, failureOccurred, trace,
                   listing, replies, given, commandVars>>

CallGetPhotoInfo == Retrying("getPhotoInfo", getPhotoInfo(replies.answers))

CallDownloadPhoto == Retrying("downloadPhoto", downloadPhoto(replies.answers))

\* ExportAlbum on a catalog, or one retry loop on the answers drawn for it.
InitAlbum ==
    /\ remote \in Remotes \cup UndatedRemotes
    /\ disk \in InterruptedDisks(remote)
    /\ phase = "start"
    /\ IdleRun
    /\ listing = NoListing
    /\ given = NoArgument
    /\ \/ /\ mode = "album"
          /\ replies = NoScript
          /\ args \in {<<albumID>> : albumID \in AlbumIds}
       \/ /\ mode = "collection"
          /\ replies = NoScript
          /\ args = <<>>
       \/ /\ mode = "retry"
          /\ remote = CHOOSE r \in Remotes : TRUE
          /\ disk = [p \in Paths(remote) |-> NoFile]
          /\ replies \in RetryScripts
          /\ args = <<>>

NextAlbum ==
    \/ ExportAlbum
    \/ StatPhoto(Parent)
    \/ Download(Parent)
    \/ Tag(Parent)
    \/ ReturnAlbum
    \/ ExportCollection
    \/ CollectionAlbum
    \/ CollectionAlbumDone
    \/ ReturnCollection
    \/ CallGetPhotoInfo
    \/ CallDownloadPhoto

SpecAlbum == InitAlbum /\ [][NextAlbum]_vars


\* ------------------------------------------------------- the album command
\* Lines 1092-1100: the loop of albumCmd over its arguments, after one
\* ExportAlbum has returned with or without error, goes on to the next
\* identifier on the same exporter.
albumCmd ==
    /\ mode = "album"
    /\ phase = "returned"
    /\ Len(args) > 1
    /\ args' = Tail(args)
    /\ phase' = "start"
    /\ ret' = "none"
    /\ UNCHANGED <<mode, remote, disk, downloadedFiles, mutex, albums,
                   unorganizedPhotos, workChan, errorChan, errorCap, errors,
                   workerVars, dl, taken, created, failureOccurred, trace,
                   listingVars, feClosed>>

\* Lines 1069-1091: the album command makes one exporter and is given the
\* identifiers of one or several albums.
InitCommand ==
    /\ mode = "album"
    /\ remote = CHOOSE r \in Remotes : TRUE
    /\ disk \in InterruptedDisks(remote)
    /\ phase = "start"
    /\ IdleRun
    /\ listing = NoListing
    /\ replies = NoScript
    /\ given = NoArgument
    /\ args \in UNION {[1..n -> AlbumIds] : n \in 1..MaxArgs}

NextCommand ==
    \/ ExportAlbum
    \/ StatPhoto(Parent)
    \/ Download(Parent)
    \/ Tag(Parent)
    \/ ReturnAlbum
    \/ albumCmd

SpecCommand == InitCommand /\ [][NextCommand]_vars


\* ------------------------------------------------------ the listing loops
\* The items a page of a listing can hold: photos with a source URL, without
\* one, and with one that ends in "/"; photosets with and without a creation
\* date.
PageItems(kind) ==
    IF kind = "photos"
    THEN {[Id |-> 1, URLO |-> <<"u", "/", "x">>], [Id |-> 2, URLO |-> <<>>],
          [Id |-> 3, URLO |-> <<"u", "/">>]}
    ELSE {SetA, [Id |-> "B", Title |-> <<"s">>, DateCreate |-> 0]}

\* The pages of at most PerPage items.
PagesOf(kind) ==
    UNION {[1..n -> PageItems(kind)] : n \in 0..PerPage}

\* The listings of up to MaxPages pages, empty and short pages among them.
ListingsOf(kind, n) ==
    {[kind |-> kind, pages |-> n, content |-> c] : c \in [1..n -> PagesOf(kind)]}
Listings ==
    UNION {ListingsOf(kind, n) : kind \in {"photos", "photosets"}, n \in 0..MaxPages}

\* One call of a listing function on the listing.
Listing(fn, kind, failAt, out) ==
    /\ mode = "pages"
    /\ phase = "start"
    /\ listing.kind = kind
    /\ result' = [fn |-> fn, failAt |-> failAt, out |-> out]
    /\ phase' = "returned"
    /\ UNCHANGED <<mode, remote, disk, downloadedFiles, mutex, albums,
                   unorganizedPhotos, workChan, errorChan, errorCap, errors,
                   ret, workerVars, dl, taken, created, failureOccurred, trace,
                   listing, replies, given, commandVars>>

CallGetAlbumPhotos ==
    \E failAt \in FailPages(listing) :
        Listing("getAlbumPhotos", "photos", failAt, getAlbumPhotos(listing, failAt))

CallGetAllAlbums ==
    \E failAt \in FailPages(listing) :
        Listing("getAllAlbums", "photosets", failAt, getAllAlbums(listing, failAt))

CallGetAllPhotos ==
    \E failAt \in FailPages(listing) :
        Listing("getAllPhotos", "photos", failAt, getAllPhotos(listing, failAt))

InitPages ==
    /\ mode = "pages"
    /\ remote = CHOOSE r \in Remotes : TRUE
    /\ disk = [p \in Paths(remote) |-> NoFile]
    /\ phase = "start"
    /\ IdleRun
    /\ listing \in Listings
    /\ replies = NoScript
    /\ given = NoArgument
    /\ args = <<>>

NextPages ==
    \/ CallGetAlbumPhotos
    \/ CallGetAllAlbums
    \/ CallGetAllPhotos

SpecPages == InitPages /\ [][NextPages]_vars


\* ------------------------------------------------- the functions alone
\* The characters of the strings given: the reserved ones, the replacement,
\* a letter and a letter outside ASCII.
Alphabet == ReservedChars \cup {"-", "a", "U+00E9"}

Strings == UNION {[1..n -> Alphabet] : n \in 0..MaxLen}

\* The photos handed to writeMetadata: with and without a title, a
\* description, tags.
TaggedPhotos ==
    [Title : {<<>>, <<"T">>},
     Description : {<<>>, <<"D">>},
     Tags : {<<>>, <<<<"a">>>>, <<<<"a">>, <<"b">>>>}]

\* The photosets whose creation date is read: without a date_create and with
\* one of two.
DatedSets ==
    [Id : {"A"}, Title : {<<"t">>},
     DateCreate : {0, TicksPerDay, TicksPerDay + 1}]

Arguments ==
    {[fn |-> "sanitizeFilename", filename |-> f] : f \in Strings}
        \cup {[fn |-> "writeMetadata", photo |-> p] : p \in TaggedPhotos}
        \cup {[fn |-> "albumDates", set |-> x, infoErr |-> e, now |-> n] :
                  x \in DatedSets, e \in BOOLEAN, n \in Clock}

\* One call of a function on the argument drawn.
Calling(fn, out) ==
    /\ mode = "call"
    /\ phase = "start"
    /\ given.fn = fn
    /\ result' = [fn |-> fn, failAt |-> 0, out |-> out]
    /\ phase' = "returned"
    /\ UNCHANGED <<mode, remote, disk, downloadedFiles, mutex, albums,
                   unorganizedPhotos, workChan, errorChan, errorCap, errors,
                   ret, workerVars, dl, taken, created, failureOccurred, trace,
                   listing, replies, given, commandVars>>

CallSanitizeFilename ==
    Calling("sanitizeFilename", sanitizeFilename(given.filename))

CallWriteMetadata ==
    Calling("writeMetadata", requestedFields(given.photo))

\* The creation date of the album made of one photoset on each path: by
\* getAlbumInfo when its request succeeds, by parseAlbumFromStruct, and by
\* parseAlbumFromCollectionSet.
CallAlbumDates ==
    Calling("albumDates",
        [info |-> getAlbumInfo(given.set.Id, given.set, given.now).DateCreated,
         bulk |-> parseAlbumFromStruct(given.set).DateCreated,
         tree |-> parseAlbumFromCollectionSet(given.set, given.infoErr,
                                              given.now).DateCreated])

InitFunctions ==
    /\ mode = "call"
    /\ remote = CHOOSE r \in Remotes : TRUE
    /\ disk = [p \in Paths(remote) |-> NoFile]
    /\ phase = "start"
    /\ IdleRun
    /\ listing = NoListing
    /\ replies = NoScript
    /\ given \in Arguments
    /\ args = <<>>

NextFunctions ==
    \/ CallSanitizeFilename
    \/ CallWriteMetadata
    \/ CallAlbumDates

SpecFunctions == InitFunctions /\ [][NextFunctions]_vars

\* ================================================================ claims
\* An exporter moved on from the photo it had reached.
Moved(w) == <<wpc[w], widx[w]>>' # <<wpc[w], widx[w]>>

\* C1: when the destination of a photo exists as it is reached (a file of any
\* size), the step that handles the photo makes no detail fetch, no download
\* and no metadata write, leaves the disk as it is and records no failure.
C1_ExistingFileSkipped ==
    [][\A w \in Workers :
          (wpc[w] = "stat" /\ disk[photoPath(w)] # NoFile /\ Moved(w)) =>
              /\ wops'[w] = {}
              /\ wlast'[w] = "skipped"
              /\ disk' = disk
              /\ dl' = dl
              /\ created' = created
              /\ failureOccurred' = failureOccurred
              /\ IF InAlbum(w) THEN wfailed'[w] = wfailed[w]
                 ELSE wpending'[w] = "nil"]_vars

\* An unorganized photo was skipped over an empty file.
C1_Witness ==
    \E w \in Workers :
        /\ phase = "unorganized"
        /\ wlast[w] = "skipped"
        /\ disk[photoPath(w)].body = "empty"

\* C2: when the tagger fails to write the fields of a file just downloaded,
\* the step leaves no file at the destination and records the photo as failed.
C2_TagFailureRemovesFile ==
    [][\A w \in Workers :
          (wpc[w] = "tag" /\ "tagerr" \in wops'[w]) =>
              /\ disk'[photoPath(w)] = NoFile
              /\ IF InAlbum(w)
                 THEN wfailed'[w] = Append(wfailed[w], Photo(w).Filename)
                 ELSE wpending'[w] = "err"]_vars

\* The photos of the account-wide listing.
AllPhotos == ParsePhotos(remote.photos)

\* C3: a photo of the account-wide listing whose filename is in the registry
\* is not among the photos sent to the second pool, is taken by no worker of
\* it, and no file is created for it in the directory of the unorganized.
C3_RegisteredNeverUnorganized ==
    \A i \in DOMAIN AllPhotos :
        AllPhotos[i].Filename \in downloadedFiles =>
            /\ \A j \in DOMAIN unorganizedPhotos :
                   unorganizedPhotos[j].ID # AllPhotos[i].ID
            /\ taken[<<"U", AllPhotos[i].ID>>] = 0
            /\ <<Join(UnorganizedDir, AllPhotos[i].Filename), AllPhotos[i].ID>>
                   \notin created

\* The second pool created a file while the registry holds a filename.
C3_Witness ==
    /\ downloadedFiles # {}
    /\ \E c \in created : c[1][1] = UnorganizedDir

\* C4: a file with content is never truncated, replaced or deleted.
C4_ContentNeverOverwritten ==
    [][\A p \in DOMAIN disk :
          disk[p].body \in {"partial", "full"} =>
              /\ disk'[p].body = disk[p].body
              /\ disk'[p].asset = disk[p].asset]_vars

\* The number of downloadPhoto calls made for a photo, in all containers.
RECURSIVE SumOver(_, _)
SumOver(f, S) ==
    IF S = {} THEN 0
    ELSE LET x == CHOOSE x \in S : TRUE IN f[x] + SumOver(f, S \ {x})
Downloads(id) == SumOver(dl, {u \in Units : u[2] = id})

Requests(t) == SelectSeq(t, LAMBDA e : e[1] = "info")
Attempts(t) == SelectSeq(t, LAMBDA e : e[1] = "get")

C7_RetryOnlyRateLimited ==
    /\ [](result.fn = "getPhotoInfo" =>
            LET q == Requests(result.out.trace)
            IN /\ Len(q) \in 1..maxRetries
               /\ \A i \in DOMAIN q : q[i][2] = replies.answers[i]
               /\ \A i \in 1..(Len(q) - 1) : RateLimited(q[i][2])
               /\ result.out.err <=> q[Len(q)][2] # InfoOK
               /\ RateLimited(q[Len(q)][2]) => Len(q) = maxRetries)
    /\ [][(/\ mode = "album"
           /\ wpc[Parent] = "stat"
           /\ Moved(Parent)
           /\ Requests(trace') # <<>>
           /\ Requests(trace')[Len(Requests(trace'))][2] # InfoOK) =>
              /\ wlast'[Parent] = "infofailed"
              /\ disk' = disk
              /\ dl' = dl
              /\ wfailed'[Parent] =
                     Append(wfailed[Parent], Photo(Parent).Filename)
              /\ IF widx[Parent] < Len(wphotos[Parent])
                 THEN /\ wpc'[Parent] = "stat"
                      /\ widx'[Parent] = widx[Parent] + 1
                 ELSE wpc'[Parent] = "send"]_vars

\* The first photo of an album failed on its fifth rate-limited request and
\* the second photo has been reached.
C7_Witness ==
    /\ mode = "album"
    /\ wlast[Parent] = "infofailed"
    /\ Len(Requests(trace)) = maxRetries
    /\ wpc[Parent] = "stat"
    /\ widx[Parent] = 2

\* C8: no unit of work is taken twice, and once ExportAllPhotos has returned
\* or can take no further step, every album listed and every photo left by
\* the filter has been taken from the work queue.
C8_EveryUnitTakenOnce ==
    /\ \A u \in Units : taken[u] <= 1
    /\ (mode = "all" /\ (phase = "returned" \/ ~ENABLED Next)) =>
           /\ \A i \in DOMAIN albums : taken[<<albums[i].ID, 0>>] = 1
           /\ \A i \in DOMAIN unorganizedPhotos :
                  taken[<<"U", unorganizedPhotos[i].ID>>] = 1

\* C9: ExportAllPhotos returns an error exactly when something failed.
C9_ErrorIffFailure ==
    ret # "none" => (ret = "err" <=> failureOccurred)

\* The items of all the pages of a listing.
RECURSIVE Flatten(_)
Flatten(pages) ==
    IF pages = <<>> THEN <<>> ELSE Head(pages) \o Flatten(Tail(pages))

ListingFunctions == {"getAlbumPhotos", "getAllAlbums", "getAllPhotos"}
UpTo(n) == [i \in 1..n |-> i]

\* C10 as stated: a listing function whose requests all succeed requests the
\* pages 1..P, P being the page count reported, and returns all their items.
C10_ExactlyPRequests ==
    (result.fn \in ListingFunctions /\ ~result.out.err) =>
        /\ result.out.requested = UpTo(listing.pages)
        /\ result.out.items =
               IF result.fn = "getAllAlbums"
               THEN ParseAlbums(Flatten(listing.content))
               ELSE ParsePhotos(Flatten(listing.content))

\* C10 amended: it requests the pages 1..P, or page 1 alone when P is 0, and
\* returns the items of these pages in order: all of them for getAllAlbums,
\* those with a source URL for getAlbumPhotos and getAllPhotos.
C10_DrainsReportedPages ==
    (result.fn \in ListingFunctions /\ ~result.out.err) =>
        /\ result.out.requested =
               UpTo(IF listing.pages > 1 THEN listing.pages ELSE 1)
        /\ result.out.items =
               IF result.fn = "getAllAlbums"
               THEN ParseAlbums(Flatten(listing.content))
               ELSE ParsePhotos(SelectSeq(Flatten(listing.content),
                                          LAMBDA item : item.URLO # <<>>))

\* getAlbumPhotos went past an empty first page and returned a photo of a
\* later page.
C10_Witness ==
    /\ result.fn = "getAlbumPhotos"
    /\ ~result.out.err
    /\ listing.pages > 1
    /\ listing.content[1] = <<>>
    /\ result.out.items # <<>>

\* C11: a listing function one of whose page requests fails returns an error
\* and no item, and the failed request is the last one it made.
C11_FailedListingReturnsNothing ==
    (result.fn \in ListingFunctions /\ result.failAt > 0) =>
        /\ result.out.err
        /\ result.out.items = <<>>
        /\ result.out.requested = UpTo(result.failAt)

\* The request of the second page failed after a first page with items.
C11_Witness ==
    /\ result.fn \in ListingFunctions
    /\ result.failAt = 2
    /\ listing.content[1] # <<>>
    /\ result.out.err

\* The directory name the output structure gives an album: the day of its
\* creation, a space, and its title with each reserved character as "-".
ExpectedDir(album) ==
    <<"d", Digit(album.DateCreated \div TicksPerDay), " ">>
        \o [i \in 1..Len(album.Title) |->
               IF album.Title[i] \in {"/", "\\", ":", "*", "?", "\"", "<", ">", "|"}
               THEN "-" ELSE album.Title[i]]

\* C12: every file that downloadAlbum creates, writes or removes is the file
\* named by the last segment of the photo's URL, directly in the directory
\* named by the date and the sanitized title of the album.
C12_AlbumFilesInAlbumDirectory ==
    [][\A p \in DOMAIN disk :
          (disk'[p] # disk[p] /\ phase \in {"album", "albums"}) =>
              \E w \in Exporters :
                  /\ wpc[w] \in {"get", "tag"}
                  /\ p[1] = ExpectedDir(wunit[w])
                  /\ \E i \in DOMAIN remote.members[wunit[w].ID] :
                        LET item == remote.members[wunit[w].ID][i]
                        IN /\ item.Id = Photo(w).ID
                           /\ p[2] = LastSegment(item.URLO)
                           /\ disk'[p].asset \in {0, item.Id}]_vars

\* ExportAlbum wrote a file into a directory whose name is not the date and
\* the title as it is: a reserved character of the title was replaced.
C12_Witness ==
    /\ mode = "album"
    /\ \E c \in created :
          /\ c[1][1] = ExpectedDir(wunit[Parent])
          /\ c[1][1] # albumDirRawTitle(wunit[Parent])
          /\ disk[c[1]].body = "full"

\* C13: sanitizeFilename keeps the length of the string, puts "-" in the place
\* of each of the nine reserved characters, keeps every other character, and
\* applied to its own result changes nothing.
C13_SanitizeReplacesReserved ==
    result.fn = "sanitizeFilename" =>
        LET s == given.filename
            out == result.out
        IN /\ Len(out) = Len(s)
           /\ \A i \in 1..Len(s) :
                  out[i] = IF s[i] \in {"/", "\\", ":", "*", "?", "\"", "<", ">", "|"}
                           THEN "-" ELSE s[i]
           /\ sanitizeFilename(out) = out

\* A string holding a reserved character, the replacement and a letter
\* outside ASCII was sanitized.
C13_Witness ==
    /\ result.fn = "sanitizeFilename"
    /\ given.filename = <<"|", "-", "U+00E9">>
    /\ result.out = <<"-", "-", "U+00E9">>

\* C14: the directory an album is exported to is the one a run started at
\* any other instant would export it to.
C14_DirectoryIndependentOfClock ==
    (mode = "album" /\ phase = "album") =>
        \A now \in Clock :
            albumDir(getAlbumInfo(wunit[Parent].ID,
                                  SetOf(remote, wunit[Parent].ID), now))
                = Dir(Parent)

\* C15: when a run on the files an interrupted run left returns without a
\* failure, the file of every photo of the album is whole and tagged.
C15_ResumedRunCompletesFiles ==
    (mode = "album" /\ phase = "returned" /\ ret = "nil" /\ ~failureOccurred) =>
        \A i \in DOMAIN wphotos[Parent] :
            LET file == disk[Join(albumDir(wunit[Parent]),
                                  wphotos[Parent][i].Filename)]
            IN file.body = "full" /\ file.tagged

\* C16: every photo for which a file is created in the directory of the
\* unorganized photos is a member of no album of the catalog.
C16_UnorganizedFilesHaveNoAlbum ==
    \A c \in created :
        c[1][1] = UnorganizedDir =>
            \A a \in DOMAIN remote.members :
                \A i \in DOMAIN remote.members[a] :
                    remote.members[a][i].Id # c[2]

\* The directories of the albums the photo is a member of.
AlbumDirsOf(id) ==
    {albumDir(parseAlbumFromStruct(remote.photosets[k])) :
        k \in {k \in DOMAIN remote.photosets :
                 \E i \in DOMAIN remote.members[remote.photosets[k].Id] :
                     remote.members[remote.photosets[k].Id][i].Id = id}}

\* C17: when ExportAllPhotos returns nil, every photo of the account with a
\* source URL has a file of its own in the directory of one of its albums or
\* in the directory of the unorganized photos.
C17_EveryPhotoHasAFile ==
    (mode = "all" /\ phase = "returned" /\ ret = "nil") =>
        \A i \in DOMAIN remote.photos :
            remote.photos[i].URLO # <<>> =>
                \E p \in DOMAIN disk :
                    /\ disk[p].asset = remote.photos[i].Id
                    /\ p[1] \in AlbumDirsOf(remote.photos[i].Id) \cup {UnorganizedDir}

\* C18: when ExportAlbum or ExportCollection returns and the last album
\* downloaded has a photo in its list of failed downloads, an error is
\* returned.
C18_FailedAssetReturnsError ==
    (mode \in {"album", "collection"} /\ phase = "returned"
        /\ wfailed[Parent] # <<>>) => ret = "err"

\* The same for ExportAlbum alone.
C18_AlbumFailureReturnsError ==
    (mode = "album" /\ phase = "returned" /\ wfailed[Parent] # <<>>) => ret = "err"

\* C19 as stated: the object-name field is requested with the title; the
\* caption only for a description that is not empty; keywords and subject
\* both with the tags, or neither when there is no tag.
C19_FieldsAsStated ==
    result.fn = "writeMetadata" =>
        LET photo == given.photo
            fields == result.out
            has(n) == n \in DOMAIN fields
        IN /\ has("IPTC:ObjectName")
           /\ fields["IPTC:ObjectName"] = photo.Title
           /\ has("IPTC:Caption-Abstract") =>
                  /\ photo.Description # <<>>
                  /\ fields["IPTC:Caption-Abstract"] = photo.Description
           /\ has("IPTC:Keywords") <=> has("XMP:Subject")
           /\ has("IPTC:Keywords") <=> photo.Tags # <<>>
           /\ has("IPTC:Keywords") =>
                  /\ fields["IPTC:Keywords"] = photo.Tags
                  /\ fields["XMP:Subject"] = photo.Tags

\* C19: the object-name field is requested exactly for a title that is not
\* empty, the caption exactly for a description that is not empty, each with
\* that value; keywords and subject both with the tags, or neither when
\* there is no tag.
C19_FieldsOnlyWithContent ==
    result.fn = "writeMetadata" =>
        LET photo == given.photo
            fields == result.out
            has(n) == n \in DOMAIN fields
        IN /\ has("IPTC:ObjectName") <=> photo.Title # <<>>
           /\ has("IPTC:ObjectName") => fields["IPTC:ObjectName"] = photo.Title
           /\ has("IPTC:Caption-Abstract") <=> photo.Description # <<>>
           /\ has("IPTC:Caption-Abstract") =>
                  fields["IPTC:Caption-Abstract"] = photo.Description
           /\ has("IPTC:Keywords") <=> has("XMP:Subject")
           /\ has("IPTC:Keywords") <=> photo.Tags # <<>>
           /\ has("IPTC:Keywords") =>
                  /\ fields["IPTC:Keywords"] = photo.Tags
                  /\ fields["XMP:Subject"] = photo.Tags

C19_Witness ==
    /\ result.fn = "writeMetadata"
    /\ given.photo.Title = <<>>
    /\ given.photo.Description = <<>>
    /\ Len(given.photo.Tags) = 2
    /\ DOMAIN result.out = {"IPTC:Keywords", "XMP:Subject", "-overwrite_original"}

\* C20: every photo a listing of photos returns has a source URL and a
\* filename that are not empty, the filename being the part of the URL after
\* its last "/".
C20_ListedPhotosHaveFilename ==
    (result.fn \in {"getAlbumPhotos", "getAllPhotos"} /\ ~result.out.err) =>
        \A i \in DOMAIN result.out.items :
            LET photo == result.out.items[i]
            IN /\ photo.OriginalURL # <<>>
               /\ photo.Filename # <<>>
               /\ photo.Filename = LastSegment(photo.OriginalURL)

\* C21: under fair scheduling every run of ExportAllPhotos returns.
C21_EveryRunReturns == <>(phase = "returned")

\* The outcomes in the channel and those a worker is about to send.
Outcomes ==
    Buffered(errorChan)
        + Cardinality({w \in Workers : wpc[w] \in {"send", "initfailed"}})

\* The units of work taken in the phase.
TakenInPhase ==
    SumOver(taken, {u \in Units : (u[1] = "U") <=> (phase = "unorganized")})

\* C22: in each phase the outcomes sent and about to be sent never exceed the
\* capacity of the channel, which is the number of units of the phase, and
\* when all workers are done there is one outcome for each unit taken.
C22_OneOutcomePerUnit ==
    phase \in {"albums", "unorganized"} =>
        /\ errorCap = Len(workChan) + TakenInPhase
        /\ Outcomes <= errorCap
        /\ (\A w \in Workers : wpc[w] = "done") =>
               Buffered(errorChan) = TakenInPhase

\* C23: the album phase ends only when each of its workers has returned; the
\* listing of the account, the filter and the downloads of the unorganized
\* photos come after that, and no step of one phase is taken during the other.
C23_PhasesNeverOverlap ==
    [][/\ (phase = "albums" /\ phase' # "albums") =>
              /\ phase' = "collected"
              /\ \A w \in Workers : wpc[w] = "done"
       /\ (phase # "unorganized" /\ phase' = "unorganized") => phase = "collected"
       /\ unorganizedPhotos' # unorganizedPhotos => phase = "collected"
       /\ downloadedFiles' # downloadedFiles => phase = "albums"
       /\ \A u \in Units :
              taken'[u] # taken[u] =>
                  phase = (IF u[1] = "U" THEN "unorganized" ELSE "albums")
       /\ \A p \in DOMAIN disk :
              disk'[p] # disk[p] =>
                  phase = (IF p[1] = UnorganizedDir THEN "unorganized" ELSE "albums")
      ]_vars

C23_Witness ==
    /\ phase = "unorganized"
    /\ \E w \in Workers : wpc[w] = "get"
    /\ downloadedFiles # {}
    /\ \E c \in created : c[1][1] # UnorganizedDir

\* C24: while a worker is at a photo of an album it listed, the filenames of
\* all the photos of that listing are in the registry, and nothing is ever
\* removed from the registry.
C24_RegisteredBeforeDownload ==
    /\ [](\A w \in Workers :
             (phase = "albums" /\ wpc[w] \in {"stat", "get", "tag"}) =>
                 \A i \in DOMAIN wphotos[w] :
                     wphotos[w][i].Filename \in downloadedFiles)
    /\ [][downloadedFiles \subseteq downloadedFiles']_vars

C24_Witness ==
    /\ phase = "albums"
    /\ \E w \in Workers :
          /\ wpc[w] = "stat"
          /\ widx[w] = 2
          /\ wlast[w] = "getfailed"
          /\ {wphotos[w][1].Filename, wphotos[w][2].Filename} \subseteq downloadedFiles

\* The workers between mutex.Lock() and mutex.Unlock().
Holders == {w \in Workers : wpc[w] = "track"}

\* C25: at most one worker is between Lock and Unlock, and it is the one the
\* mutex records; the registry is written only by that worker; and the
\* filter of the unorganized phase reads it only when every worker of the
\* album pool has returned.
C25_RegistryNeverShared ==
    /\ [](/\ Cardinality(Holders) <= 1
          /\ \A w \in Holders : mutex = w)
    /\ [][/\ downloadedFiles' # downloadedFiles =>
                \E w \in Holders : mutex = w /\ wpc'[w] # "track"
          /\ (phase = "collected" /\ phase' # "collected") =>
                \A w \in Workers : wpc[w] = "done"
         ]_vars

C25_Witness ==
    /\ phase = "albums"
    /\ \E w, v \in Workers : wpc[w] = "track" /\ mutex = w /\ wpc[v] = "lock"

\* C26: every session a worker uses is one made by that worker: it is not a
\* session of the exporter of the command, and no two exporters use the same
\* session.
C26_OwnSessionsOnly ==
    /\ \A w \in Workers :
          \A use \in wuses[w] : use[2] = w /\ use[2] # fe.client /\ use[2] # fe.et
    /\ \A e, f \in Exporters : e # f => wuses[e] \cap wuses[f] = {}

C26_Witness ==
    /\ phase = "unorganized"
    /\ \E w, v \in Workers :
          /\ w # v
          /\ wuses[w] = {<<"client", w>>, <<"et", w>>}
          /\ wuses[v] = {<<"client", v>>}

\* C27: a download starts only in the step in which the detail fetch of the
\* photo succeeded, a metadata write only in the step in which its download
\* succeeded; a failed fetch or download ends the photo, which is recorded
\* as failed, with no later step made for it.
C27_StepsInOrder ==
    /\ [](\A e \in Workers :
            /\ "get" \in wops[e] => "info" \in wops[e]
            /\ "tag" \in wops[e] => "get" \in wops[e]
            /\ wpc[e] = "get" => wops[e] = {"info"}
            /\ wpc[e] = "tag" => wops[e] = {"info", "get"})
    /\ [][\A e \in Workers :
            /\ (wpc'[e] = "get" /\ wpc[e] # "get") =>
                  /\ wpc[e] = "stat"
                  /\ ~Exists(photoPath(e))
                  /\ wlast'[e] = wlast[e]
                  /\ wfailed'[e] = wfailed[e]
                  /\ wpending'[e] = wpending[e]
            /\ (wpc'[e] = "tag" /\ wpc[e] # "tag") =>
                  /\ wpc[e] = "get"
                  /\ disk'[photoPath(e)].body = "full"
                  /\ wlast'[e] = wlast[e]
                  /\ wfailed'[e] = wfailed[e]
                  /\ wpending'[e] = wpending[e]
            /\ (wpc[e] \in {"stat", "get"} /\ Moved(e)
                  /\ wpc'[e] \notin {"get", "tag"} /\ wops'[e] # {}) =>
                  /\ wlast'[e] = (IF wpc[e] = "stat" THEN "infofailed"
                                  ELSE "getfailed")
                  /\ "tag" \notin wops'[e]
                  /\ wpc[e] = "stat" => ("get" \notin wops'[e] /\ disk' = disk)
                  /\ IF InAlbum(e)
                     THEN wfailed'[e] = Append(wfailed[e], Photo(e).Filename)
                     ELSE wpending'[e] = "err"
       ]_vars

C27_Witness ==
    /\ phase = "albums"
    /\ \E e \in Workers :
          /\ wpc[e] = "tag"
          /\ widx[e] = 2
          /\ wfailed[e] = <<wphotos[e][1].Filename>>
          /\ wlast[e] = "getfailed"

\* C28: downloadAlbum starts at the first photo of the listing and goes from
\* a photo to the next one only in the step that ends the former; while a
\* photo is in progress nothing has been downloaded for a later photo, and
\* every step changes only the file of the photo in progress.
C28_OnePhotoAtATimeInOrder ==
    /\ []((phase \in {"album", "collection"}
              /\ wpc[Parent] \in {"stat", "get", "tag"}) =>
            /\ widx[Parent] \in DOMAIN wphotos[Parent]
            /\ \A j \in DOMAIN wphotos[Parent] :
                  j > widx[Parent] =>
                      dl[<<wunit[Parent].ID, wphotos[Parent][j].ID>>] = 0)
    /\ [][(phase \in {"album", "collection"} \/ phase' \in {"album", "collection"}) =>
            /\ (wpc[Parent] \notin {"stat", "get", "tag"}
                  /\ wpc'[Parent] \in {"stat", "get", "tag"}) =>
                  /\ wpc'[Parent] = "stat"
                  /\ widx'[Parent] = 1
            /\ (wpc[Parent] \in {"stat", "get", "tag"}
                  /\ widx'[Parent] # widx[Parent]) =>
                  /\ widx'[Parent] = widx[Parent] + 1
                  /\ wlast'[Parent] \in {"skipped", "infofailed", "getfailed",
                                         "tagfailed", "done"}
                  /\ wpc'[Parent] =
                        (IF widx[Parent] < Len(wphotos[Parent])
                         THEN "stat" ELSE "send")
            /\ (wpc[Parent] \in {"stat", "get", "tag"}
                  /\ widx'[Parent] = widx[Parent]) =>
                  wpc'[Parent] \in {"get", "tag"}
            /\ \A p \in DOMAIN disk :
                  disk'[p] # disk[p] => p = photoPath(Parent)
            /\ \A u \in Units :
                  dl'[u] # dl[u] => u = <<wunit[Parent].ID, Photo(Parent).ID>>
       ]_vars

C28_Witness ==
    /\ mode = "album"
    /\ wpc[Parent] = "get"
    /\ widx[Parent] = 2
    /\ Len(wphotos[Parent]) = 2
    /\ wlast[Parent] = "done"
    /\ dl[<<wunit[Parent].ID, wphotos[Parent][1].ID>>] = 1

\* C29 without the metadata writes: the step that ends a photo appends its
\* filename to the list of failures exactly when its fetch or its download
\* failed, and goes on with the next photo when there is one; ExportCollection
\* returns only when no album is left.
C29_FetchAndDownloadFailuresListed ==
    [][/\ (phase \in {"album", "collection"}
            /\ wpc[Parent] \in {"stat", "get", "tag"}
            /\ widx'[Parent] # widx[Parent]) =>
              /\ wfailed'[Parent] =
                    (IF wlast'[Parent] \in {"infofailed", "getfailed", "tagfailed"}
                     THEN Append(wfailed[Parent], Photo(Parent).Filename)
                     ELSE wfailed[Parent])
              /\ widx[Parent] < Len(wphotos[Parent]) => wpc'[Parent] = "stat"
       /\ (phase = "collection" /\ phase' = "returned") => workChan = <<>>
      ]_vars

\* C29: the same, the photos whose metadata write failed being listed too.
C29_EveryFailureListed ==
    [][/\ (phase \in {"album", "collection"}
            /\ wpc[Parent] \in {"stat", "get", "tag"}
            /\ widx'[Parent] # widx[Parent]) =>
              /\ wfailed'[Parent] =
                    (IF \/ wlast'[Parent] \in {"infofailed", "getfailed", "tagfailed"}
                        \/ "tagerr" \in wops'[Parent]
                     THEN Append(wfailed[Parent], Photo(Parent).Filename)
                     ELSE wfailed[Parent])
              /\ widx[Parent] < Len(wphotos[Parent]) => wpc'[Parent] = "stat"
       /\ (phase = "collection" /\ phase' = "returned") => workChan = <<>>
      ]_vars

\* C30: when ExportAlbum has returned, no photo in its list of failures has
\* a file at its destination.
C30_NoFileForFailedPhoto ==
    (mode = "album" /\ phase = "returned") =>
        \A i \in DOMAIN wfailed[Parent] :
            disk[Join(albumDir(wunit[Parent]), wfailed[Parent][i])] = NoFile

\* C31: a tagger session is never used to write metadata after it was closed:
\* every step in which the exporter of the command writes metadata through its
\* session is taken while that session is still open, also for the second and
\* later identifiers of one album command.
C31_TaggerOpenWhenUsed ==
    [][(wpc[Parent] = "tag" /\ ViaTagger(Parent) \in wuses'[Parent])
       => ~feClosed]_vars

\* The same for the first identifier of a command alone.
C31_FirstAlbumTaggedOpen ==
    [][(wpc[Parent] = "tag" /\ ViaTagger(Parent) \in wuses'[Parent]
        /\ Len(args) = MaxArgs)
       => ~feClosed]_vars


\* The sleeps of a trace, in the order they were made.
Waits(t) == SelectSeq(t, LAMBDA e : e[1] = "sleep")

RECURSIVE TotalWait(_)
TotalWait(w) == IF w = <<>> THEN 0 ELSE Head(w)[2] + TotalWait(Tail(w))

\* C32: in getPhotoInfo the wait before the k-th retry is 2 * 2^(k-1) seconds
\* (2, 4, 8 and 16 in that order); a wait is made only after a rate-limited
\* request that is not the fifth and is followed by the next request, so there
\* is one wait for each request but the last and none after the last; the
\* waits of one call add up to 30 seconds at most.
C32_BackoffDoubles ==
    result.fn = "getPhotoInfo" =>
        LET t == result.out.trace
            w == Waits(t)
            q == Requests(t)
        IN /\ Len(w) = Len(q) - 1
           /\ Len(w) <= maxRetries - 1
           /\ \A k \in DOMAIN w : w[k][2] = 2 * (2 ^ (k - 1))
           /\ w \in {SubSeq(<<Sleep(2), Sleep(4), Sleep(8), Sleep(16)>>, 1, n) :
                         n \in 0..4}
           /\ Len(t) = Len(q) + Len(w)
           /\ \A i \in DOMAIN t :
                  t[i][1] = "sleep" <=>
                      /\ i % 2 = 0
                      /\ i < Len(t)
           /\ \A i \in DOMAIN t :
                  t[i][1] = "sleep" =>
                      /\ t[i - 1][1] = "info"
                      /\ RateLimited(t[i - 1][2])
                      /\ t[i + 1][1] = "info"
           /\ t[Len(t)][1] = "info"
           /\ TotalWait(w) <= 30

\* A call that was rate limited four times, waited 2, 4, 8 and 16 seconds and
\* failed on its fifth request for another reason.
C32_Witness ==
    /\ result.fn = "getPhotoInfo"
    /\ Len(Waits(result.out.trace)) = maxRetries - 1
    /\ TotalWait(Waits(result.out.trace)) = 30
    /\ result.out.err
    /\ ~RateLimited(replies.answers[maxRetries])


\* The step ends, in ExportAlbum, a photo whose download was attempted.
EndsAttempted ==
    /\ mode = "album"
    /\ wpc[Parent] \in {"get", "tag"}
    /\ widx'[Parent] = widx[Parent] + 1

\* The step ends with the sleep of 100 ms.
PauseMade ==
    /\ trace' # trace
    /\ trace' # <<>>
    /\ trace'[Len(trace')] = Pause

\* The step is the download of a photo of an album that comes right after a
\* photo whose download was attempted.
NextAttempt ==
    /\ mode = "album"
    /\ wpc[Parent] = "get"
    /\ dl' # dl
    /\ widx[Parent] > 1
    /\ wlast[Parent] \in {"getfailed", "tagfailed", "done"}

\* C33: in downloadAlbum the sleep of 100 ms is made at the end of a photo and
\* of no other step; when the download of a photo is attempted right after a
\* photo whose download was attempted, succeeded or failed, the earlier photo
\* ended with the sleep; the last photo of the album ends without it.
C33_DelayBetweenAttempts ==
    [][/\ (mode = "album" /\ PauseMade) => EndsAttempted
       /\ EndsAttempted =>
              (PauseMade <=> /\ wlast'[Parent] = "done"
                             /\ widx[Parent] < Len(wphotos[Parent]))
       /\ NextAttempt => wlast[Parent] = "done"
       /\ (EndsAttempted /\ widx[Parent] = Len(wphotos[Parent])) => ~PauseMade]_vars

\* What the loop does: the sleep is made exactly at the end of a photo that
\* was downloaded and went through writeMetadata and is not the last.
C33_DelayAfterCompletedPhoto ==
    [][/\ (mode = "album" /\ PauseMade) => EndsAttempted
       /\ EndsAttempted =>
              (PauseMade <=> /\ wpc[Parent] = "tag"
                             /\ wlast'[Parent] = "done"
                             /\ widx[Parent] < Len(wphotos[Parent]))
       /\ (NextAttempt /\ wlast[Parent] # "getfailed") => wlast[Parent] = "done"
       /\ (EndsAttempted /\ widx[Parent] = Len(wphotos[Parent])) => ~PauseMade]_vars


\* The Unix epoch, time.Unix(0, 0).
Epoch == 0

\* C34 as stated: without a remote creation timestamp the album of
\* getAlbumInfo gets the current time and the album of parseAlbumFromStruct,
\* or of a tree entry whose detail fetch failed, gets the Unix epoch; with a
\* positive timestamp the album of every path gets that timestamp.
C34_DateOnEveryPath ==
    result.fn = "albumDates" =>
        LET d == given.set.DateCreate
        IN /\ d = 0 => /\ result.out.info = given.now
                        /\ result.out.bulk = Epoch
                        /\ given.infoErr => result.out.tree = Epoch
           /\ d > 0 => /\ result.out.info = d
                        /\ result.out.bulk = d
                        /\ result.out.tree = d

\* C34 amended: the same, but the album of a tree entry whose detail fetch
\* failed gets the Unix epoch whatever the remote timestamp is; the album of
\* a tree entry whose detail fetch succeeded is the album of getAlbumInfo.
C34_DateByPath ==
    result.fn = "albumDates" =>
        LET d == given.set.DateCreate
        IN /\ d = 0 => /\ result.out.info = given.now
                        /\ result.out.info # Epoch
                        /\ result.out.bulk = Epoch
           /\ d > 0 => /\ result.out.info = d
                        /\ result.out.bulk = d
           /\ result.out.tree =
                  IF given.infoErr THEN Epoch ELSE result.out.info

\* The detail fetch of a tree entry failed for a photoset that has a creation
\* timestamp: its album has the epoch, the albums of the other paths the
\* timestamp.
C34_Witness ==
    /\ result.fn = "albumDates"
    /\ given.set.DateCreate > 0
    /\ given.infoErr
    /\ result.out.tree = Epoch
    /\ result.out.info = given.set.DateCreate
    /\ result.out.bulk = given.set.DateCreate


\* ExportAllPhotos returns in this step.
Returns == mode = "all" /\ phase # "returned" /\ phase' = "returned"

\* No worker has been started, no file created and nothing downloaded.
NothingDone ==
    /\ \A e \in Exporters : wpc[e] = "off"
    /\ created = {}
    /\ \A u \in Units : dl[u] = 0 /\ taken[u] = 0

\* The step leaves what the album phase did and takes no unorganized photo.
KeepsAlbumPhase ==
    /\ disk' = disk
    /\ dl' = dl
    /\ created' = created
    /\ downloadedFiles' = downloadedFiles
    /\ taken' = taken
    /\ \A u \in Units : u[1] = "U" => taken[u] = 0 /\ dl[u] = 0
    /\ errors' = errors + 1
    /\ ret' = "err"

\* Every album listed and every photo left by the filter has been taken.
AllTaken ==
    /\ \A i \in DOMAIN albums : taken[<<albums[i].ID, 0>>] = 1
    /\ \A i \in DOMAIN unorganizedPhotos :
           taken[<<"U", unorganizedPhotos[i].ID>>] = 1

\* getAllAlbums failed: the run returns an error with nothing done.
AlbumListingFailed ==
    /\ phase = "start"
    /\ albums' = <<>>
    /\ ret' = "err"
    /\ NothingDone'

\* getAllPhotos failed: nothing was filtered, no unorganized photo is taken
\* and the run returns an error.
PhotoListingFailed ==
    /\ phase = "collected"
    /\ unorganizedPhotos' = <<>>
    /\ KeepsAlbumPhase

\* The directory of the unorganized photos could not be made: the photos
\* left by the filter are not taken and the run returns an error.
DirectoryFailed ==
    /\ phase = "collected"
    /\ unorganizedPhotos' # <<>>
    /\ KeepsAlbumPhase

\* The run went through: every unit listed was taken by a worker.
WentThrough ==
    /\ \/ phase = "unorganized"
       \/ phase = "collected" /\ unorganizedPhotos' = <<>> /\ errors' = errors
    /\ AllTaken'

C35_AlbumListingWitness ==
    /\ mode = "all"
    /\ phase = "returned"
    /\ albums = <<>>
    /\ ret = "err"
    /\ NothingDone

\* The run has returned an error at the listing of all photos, after its
\* album phase created files.
C35_PhotoListingWitness ==
    /\ mode = "all"
    /\ phase = "returned"
    /\ ret = "err"
    /\ errors = 1
    /\ unorganizedPhotos = <<>>
    /\ created # {}


=============================================================================
